---------------------------- MODULE Spec2Model ----------------------------
(***************************************************************************)
(* A model of native/occt_server/main.cpp: the shape registry, the result  *)
(* model and its merge, the selector resolution engine and the four        *)
(* request handlers of the server.                                         *)
(*                                                                         *)
(* JSON objects are functions from their keys to their values, so that     *)
(* "contains(key)" is membership in DOMAIN.  A value whose JSON type the   *)
(* code tests (ownerKey) is a record [t |-> type, v |-> text].             *)
(***************************************************************************)
EXTENDS Integers, Sequences, FiniteSets, TLC

VARIABLES
  sessions,   \* SessionManager::sessions_ : session id -> Session
  issued,     \* per session, each registerShape call: [handle, shape], in order
  applied,    \* per session, the features built: [id, handle, upstream]
  resp,       \* the response of the last request and the request it answers
  process,    \* process-wide state: write.step.schema and the scratch files
  threads,    \* the request each server thread is serving
  mUp,        \* mergeResults: the upstream argument
  mNext,      \* mergeResults: the next argument
  mOut,       \* mergeResults: the value returned
  mPc,        \* "args" before the call of mergeResults, "done" after it
  qModel,     \* resolveSelector: the result model (current)
  qSel,       \* resolveSelector: the selector
  qOut,       \* resolveSelector: the outcome
  qPc,        \* "args" before the call of resolveSelector, "done" after it
  qStack,     \* resolveSelector: the activations of the call, innermost last
  gIn,        \* annotations: the geometry reference, or the pmi payload
  gCurrent,   \* annotations: the session's current result model
  gRegistry,  \* annotations: the session's registry
  gOut,       \* annotations: the value returned or the exception thrown
  gPc         \* "args" before the call, "done" after it

vars == <<sessions, issued, applied, resp, process, threads, mUp, mNext, mOut, mPc, qModel, qSel, qOut, qPc, qStack, gIn, gCurrent, gRegistry, gOut, gPc>>

serverVars == <<sessions, issued, applied, resp, process>>
threadVars == <<threads>>
mergeVars == <<mUp, mNext, mOut, mPc>>
selectVars == <<qModel, qSel, qOut, qPc, qStack>>
annotateVars == <<gIn, gCurrent, gRegistry, gOut, gPc>>

-----------------------------------------------------------------------------
(* Bounds of the model.                                                    *)

\* The longest upstream.selections drawn as an argument of mergeResults.
MaxUp == 3

\* The longest next.selections drawn as an argument of mergeResults.
MaxNext == 1

-----------------------------------------------------------------------------
(* JSON helpers.                                                           *)

\* json::contains(key) on an object.
contains(obj, key) == key \in DOMAIN obj

\* json::value(key, fallback): the member when present, else the fallback.
value(obj, key, fallback) == IF key \in DOMAIN obj THEN obj[key] ELSE fallback

\* A JSON string and a JSON number, for a member whose type the code tests.
JString(s) == [t |-> "string", v |-> s]
JNumber(s) == [t |-> "number", v |-> s]

\* A JSON array and JSON null, for the tags of a feature and for a center.
JArray(items) == [t |-> "array", v |-> items]
JNull == [t |-> "null", v |-> <<>>]
is_null(j) == j.t = "null"

\* json::is_array() and json::size() of an array.
is_array(j) == j.t = "array"
size(j) == Len(j.v)

\* json::is_string().
is_string(j) == j.t = "string"

\* A default-constructed KernelResult: no outputs, no selections.
EmptyResult == [outputs |-> <<>>, selections |-> <<>>]

-----------------------------------------------------------------------------
(* mergeResults.                                                           *)

\* The guard of both loops: the element carries a string ownerKey.
hasOwnerKey(sel) ==
  contains(sel.meta, "ownerKey") /\ is_string(sel.meta["ownerKey"])

\* The first loop: the string ownerKeys of next.selections, in order.
ownerKeysOf(selections) ==
  LET keys[i \in 0..Len(selections)] ==
        IF i = 0 THEN <<>>
        ELSE IF hasOwnerKey(selections[i])
             THEN Append(keys[i - 1], selections[i].meta["ownerKey"].v)
             ELSE keys[i - 1]
  IN keys[Len(selections)]

\* A merge that shadows nothing: the skip flag is never set.
skip_never(sel, ownerKeys) == FALSE

\* The inner loop: skip an upstream element whose string ownerKey is listed.
skip(sel, ownerKeys) ==
  /\ hasOwnerKey(sel)
  /\ \E i \in 1..Len(ownerKeys) : ownerKeys[i] = sel.meta["ownerKey"].v

\* Outputs merged the wrong way round: the upstream value wins.
mergeOutputs_firstWins(upstream, next) ==
  [k \in DOMAIN upstream \cup DOMAIN next |->
     IF k \in DOMAIN upstream THEN upstream[k] ELSE next[k]]

\* merged.outputs: a copy of upstream's, then every entry of next assigned.
mergeOutputs(upstream, next) ==
  [k \in DOMAIN upstream \cup DOMAIN next |->
     IF k \in DOMAIN next THEN next[k] ELSE upstream[k]]

\* A merge that puts next's selections before the kept upstream ones.
mergeSelections_nextFirst(upstream, next) ==
  LET ownerKeys == ownerKeysOf(next)
  IN next \o SelectSeq(upstream, LAMBDA sel : ~skip(sel, ownerKeys))

\* merged.selections: the upstream elements not skipped, then all of next's.
mergeSelections(upstream, next) ==
  LET ownerKeys == ownerKeysOf(next)
  IN SelectSeq(upstream, LAMBDA sel : ~skip(sel, ownerKeys)) \o next

mergeResults(upstream, next) ==
  [outputs    |-> mergeOutputs(upstream.outputs, next.outputs),
   selections |-> mergeSelections(upstream.selections, next.selections)]

-----------------------------------------------------------------------------
(* resolveSelector.  Numbers are integers here: the code's doubles are only *)
(* compared (max, min, ==), and the distance of closestTo is kept squared,  *)
(* which orders and ties candidates as its square root does.                *)
(* The outcome is [ok, sel, error]: the optional returned and the message   *)
(* left in the error argument.                                              *)

Found(sel) == [ok |-> TRUE, sel |-> sel, error |-> ""]
Failed(msg) == [ok |-> FALSE, sel |-> <<>>, error |-> msg]

\* A named lookup that reads the selections list instead of the outputs.
resolveNamed_fromSelections(selector, current) ==
  LET name == value(selector, "name", "")
      hits == SelectSeq(current.selections,
                        LAMBDA sel : value(sel.meta, "ownerKey", JString("")).v = name)
  IN IF hits = <<>>
     THEN Failed("Missing named output: " \o name)
     ELSE Found(hits[1])

\* The selector.named branch: look the name up in current.outputs.
resolveNamed(selector, current) ==
  LET name == value(selector, "name", "")
  IN IF name \notin DOMAIN current.outputs
     THEN Failed("Missing named output: " \o name)
     ELSE Found([id   |-> current.outputs[name].id,
                 kind |-> current.outputs[name].kind,
                 meta |-> current.outputs[name].meta])

\* An element-kind filter that lets no element through for a selector kind
\* it does not know.
kindMatches_knownOnly(kind, sel) ==
  \/ kind = "selector.face" /\ sel.kind = "face"
  \/ kind = "selector.edge" /\ sel.kind = "edge"
  \/ kind = "selector.solid" /\ sel.kind = "solid"

\* The three "continue" lines: the element-kind filter of the selector kind.
kindMatches(kind, sel) ==
  /\ ~(kind = "selector.face" /\ sel.kind # "face")
  /\ ~(kind = "selector.edge" /\ sel.kind # "edge")
  /\ ~(kind = "selector.solid" /\ sel.kind # "solid")

\* One predicate against one element; an unknown predicate kind passes.
predicateMatches(pred, sel) ==
  LET predKind == value(pred, "kind", "")
  IN CASE predKind = "pred.planar" ->
            value(sel.meta, "planar", FALSE)
       [] predKind = "pred.normal" ->
            value(sel.meta, "normal", "") = value(pred, "value", "")
       [] predKind = "pred.createdBy" ->
            value(sel.meta, "createdBy", "") = value(pred, "featureId", "")
       [] predKind = "pred.role" ->
            value(sel.meta, "role", "") = value(pred, "value", "")
       [] OTHER -> TRUE

\* Predicates joined by OR: one passing predicate is enough.
matchesAll_any(selector, sel) ==
  LET preds == value(selector, "predicates", <<>>)
  IN preds = <<>> \/ \E i \in 1..Len(preds) : predicateMatches(preds[i], sel)

\* The predicate loop: matches stays true while every predicate passes.
matchesAll(selector, sel) ==
  LET preds == value(selector, "predicates", <<>>)
      matches[i \in 0..Len(preds)] ==
        IF i = 0 THEN TRUE
        ELSE matches[i - 1] /\ predicateMatches(preds[i], sel)
  IN matches[Len(preds)]

\* The candidates loop: the elements of the requested kind that match.
filterCandidates(selector, current) ==
  LET kind == value(selector, "kind", "")
  IN SelectSeq(current.selections,
               LAMBDA sel : kindMatches(kind, sel) /\ matchesAll(selector, sel))

Max(a, b) == IF a >= b THEN a ELSE b
Min(a, b) == IF a <= b THEN a ELSE b

\* rank.maxArea: best starts at -1.0; keep the candidates whose area is best.
rankMaxArea(candidates) ==
  LET best[i \in 0..Len(candidates)] ==
        IF i = 0 THEN -1
        ELSE Max(best[i - 1], value(candidates[i].meta, "area", 0))
  IN SelectSeq(candidates,
               LAMBDA c : value(c.meta, "area", 0) = best[Len(candidates)])

\* rank.minZ: best starts at +infinity, so it is the least centerZ.
rankMinZ(candidates) ==
  LET best[i \in 1..Len(candidates)] ==
        IF i = 1 THEN value(candidates[1].meta, "centerZ", 0)
        ELSE Min(best[i - 1], value(candidates[i].meta, "centerZ", 0))
  IN SelectSeq(candidates,
               LAMBDA c : value(c.meta, "centerZ", 0) = best[Len(candidates)])

\* rank.maxZ: best starts at -infinity, so it is the greatest centerZ.
rankMaxZ(candidates) ==
  LET best[i \in 1..Len(candidates)] ==
        IF i = 1 THEN value(candidates[1].meta, "centerZ", 0)
        ELSE Max(best[i - 1], value(candidates[i].meta, "centerZ", 0))
  IN SelectSeq(candidates,
               LAMBDA c : value(c.meta, "centerZ", 0) = best[Len(candidates)])

\* dx*dx + dy*dy + dz*dz from a candidate's center to the target's.
distSq(c, center) ==
  LET cc == value(c.meta, "center", JArray(<<0, 0, 0>>)).v
  IN (cc[1] - center[1]) * (cc[1] - center[1])
     + (cc[2] - center[2]) * (cc[2] - center[2])
     + (cc[3] - center[3]) * (cc[3] - center[3])

\* A closestTo stage that keeps one candidate at the least distance, the
\* first of them.
rankClosest_first(candidates, center) ==
  LET bestScore[i \in 1..Len(candidates)] ==
        IF i = 1 THEN distSq(candidates[1], center)
        ELSE Min(bestScore[i - 1], distSq(candidates[i], center))
      nearest == SelectSeq(candidates,
                           LAMBDA c : distSq(c, center) = bestScore[Len(candidates)])
  IN <<nearest[1]>>

\* rank.closestTo once the target's center is known: keep the candidates at
\* the least distance.
rankClosest(candidates, center) ==
  LET bestScore[i \in 1..Len(candidates)] ==
        IF i = 1 THEN distSq(candidates[1], center)
        ELSE Min(bestScore[i - 1], distSq(candidates[i], center))
  IN SelectSeq(candidates,
               LAMBDA c : distSq(c, center) = bestScore[Len(candidates)])

\* A rank loop that reports every failure of a stage as an ambiguity.
RankFailed_asAmbiguity(msg) ==
  [failed |-> TRUE, candidates |-> <<>>,
   error |-> "Selector ambiguity after ranking"]

\* The state of the rank loop: the candidates left, or the error returned.
Ranked(candidates) == [failed |-> FALSE, candidates |-> candidates, error |-> ""]
RankFailed(msg) == [failed |-> TRUE, candidates |-> <<>>, error |-> msg]

\* A target center that has no fallback: an element without a center reads
\* as the empty array.
targetCenter_noFallback(targetSel) ==
  value(targetSel.meta, "center", JArray(<<>>))

\* auto center = targetSel->meta.value("center", json::array({0, 0, 0})).
targetCenter(targetSel) ==
  value(targetSel.meta, "center", JArray(<<0, 0, 0>>))

RECURSIVE resolveSelector(_, _)
RECURSIVE rankLoop(_, _, _, _)

\* A final check that returns the first candidate whenever any is left.
resolveOutcome_first(ranked) ==
  IF ranked.failed THEN Failed(ranked.error)
  ELSE IF Len(ranked.candidates) = 0
       THEN Failed("Selector ambiguity after ranking")
       ELSE Found(ranked.candidates[1])

\* The end of resolveSelector: one candidate is returned, any other number
\* is an ambiguity.
resolveOutcome(ranked) ==
  IF ranked.failed THEN Failed(ranked.error)
  ELSE IF Len(ranked.candidates) # 1
       THEN Failed("Selector ambiguity after ranking")
       ELSE Found(ranked.candidates[1])

RECURSIVE rankLoop_noBreak(_, _, _, _)

\* A rank loop that runs every rule, however many candidates are left.
rankLoop_noBreak(rankRules, i, candidates, current) ==
  IF i > Len(rankRules)
  THEN Ranked(candidates)
  ELSE
    LET rule == rankRules[i]
        ruleKind == value(rule, "kind", "")
    IN CASE ruleKind = "rank.maxArea" ->
              rankLoop_noBreak(rankRules, i + 1, rankMaxArea(candidates), current)
         [] ruleKind = "rank.minZ" ->
              rankLoop_noBreak(rankRules, i + 1, rankMinZ(candidates), current)
         [] ruleKind = "rank.maxZ" ->
              rankLoop_noBreak(rankRules, i + 1, rankMaxZ(candidates), current)
         [] ruleKind = "rank.closestTo" ->
              LET targetSel == resolveSelector(rule["target"], current)
              IN IF ~targetSel.ok
                 THEN RankFailed(targetSel.error)
                 ELSE
                   LET center == targetCenter(targetSel.sel)
                   IN IF ~is_array(center) \/ size(center) < 3
                      THEN RankFailed("Selector requires center metadata")
                      ELSE rankLoop_noBreak(rankRules, i + 1,
                                            rankClosest(candidates, center.v),
                                            current)
         [] OTHER -> rankLoop_noBreak(rankRules, i + 1, candidates, current)

\* One pass of the rank loop on rule i, then the rest of the loop.
rankLoop(rankRules, i, candidates, current) ==
  IF i > Len(rankRules) \/ Len(candidates) <= 1
  THEN Ranked(candidates)
  ELSE
    LET rule == rankRules[i]
        ruleKind == value(rule, "kind", "")
    IN CASE ruleKind = "rank.maxArea" ->
              rankLoop(rankRules, i + 1, rankMaxArea(candidates), current)
         [] ruleKind = "rank.minZ" ->
              rankLoop(rankRules, i + 1, rankMinZ(candidates), current)
         [] ruleKind = "rank.maxZ" ->
              rankLoop(rankRules, i + 1, rankMaxZ(candidates), current)
         [] ruleKind = "rank.closestTo" ->
              LET targetSel == resolveSelector(rule["target"], current)
              IN IF ~targetSel.ok
                 THEN RankFailed(targetSel.error)
                 ELSE
                   LET center == targetCenter(targetSel.sel)
                   IN IF ~is_array(center) \/ size(center) < 3
                      THEN RankFailed("Selector requires center metadata")
                      ELSE rankLoop(rankRules, i + 1,
                                    rankClosest(candidates, center.v), current)
         [] OTHER -> rankLoop(rankRules, i + 1, candidates, current)

\* The candidates left when the rank loop ends, or the error it returned.
rankCandidates(selector, candidates, current) ==
  rankLoop(value(selector, "rank", <<>>), 1, candidates, current)

resolveSelector(selector, current) ==
  IF value(selector, "kind", "") = "selector.named"
  THEN resolveNamed(selector, current)
  ELSE
    LET candidates == filterCandidates(selector, current)
    IN IF candidates = <<>>
       THEN Failed("Selector matched 0 candidates")
       ELSE resolveOutcome(rankCandidates(selector, candidates, current))

-----------------------------------------------------------------------------
(* The arguments mergeResults is applied to.                               *)

\* KernelSelection values: string, numeric and absent ownerKey, and metadata
\* keys the engine does not know.
MergeElements ==
  { [id |-> "face", kind |-> "face",
     meta |-> [handle |-> "shape:1", ownerKey |-> JString("body:main")]],
    [id |-> "edge", kind |-> "edge",
     meta |-> [handle |-> "shape:2", ownerKey |-> JString("body:tool"),
               vendorNote |-> "kept"]],
    [id |-> "solid", kind |-> "solid",
     meta |-> [handle |-> "shape:3", featureTags |-> "t"]],
    [id |-> "face", kind |-> "face",
     meta |-> [handle |-> "shape:4", ownerKey |-> JNumber("7")]] }

\* KernelObject values stored under an output key.
MergeObjects ==
  { [id |-> "F1:body:main", kind |-> "solid",
     meta |-> [handle |-> "shape:0", role |-> "body"]],
    [id |-> "F2:body:main", kind |-> "solid",
     meta |-> [handle |-> "shape:5", role |-> "body"]] }

MergeKeys == {"body:main", "body:tool"}

SeqsUpTo(S, n) == UNION {[1..k -> S] : k \in 0..n}

MergeModels(n) ==
  { [outputs |-> o, selections |-> s] :
      o \in UNION {[D -> MergeObjects] : D \in SUBSET MergeKeys},
      s \in SeqsUpTo(MergeElements, n) }

MergeIdle ==
  /\ mUp = EmptyResult /\ mNext = EmptyResult /\ mOut = EmptyResult
  /\ mPc = "idle"

SelectIdle ==
  /\ qModel = EmptyResult /\ qSel = <<>> /\ qOut = <<>> /\ qPc = "idle"
  /\ qStack = <<>>

ServerIdle ==
  /\ sessions = <<>> /\ issued = <<>> /\ applied = <<>>
  /\ resp = <<>> /\ process = <<>>

ThreadsIdle == threads = <<>>

AnnotateIdle ==
  /\ gIn = <<>> /\ gCurrent = <<>> /\ gRegistry = <<>>
  /\ gOut = <<>> /\ gPc = "idle"

InitMerge ==
  /\ mUp \in MergeModels(MaxUp)
  /\ mNext \in MergeModels(MaxNext)
  /\ mOut = EmptyResult
  /\ mPc = "args"
  /\ SelectIdle
  /\ ServerIdle
  /\ ThreadsIdle
  /\ AnnotateIdle

\* KernelResult merged = mergeResults(upstream, built);
Merge ==
  /\ mPc = "args"
  /\ mOut' = mergeResults(mUp, mNext)
  /\ mPc' = "done"
  /\ UNCHANGED <<mUp, mNext>>
  /\ UNCHANGED selectVars
  /\ UNCHANGED serverVars
  /\ UNCHANGED threadVars
  /\ UNCHANGED annotateVars

NextMerge == Merge

SpecMerge == InitMerge /\ [][NextMerge]_vars

-----------------------------------------------------------------------------
(* The arguments resolveSelector is applied to.                            *)

\* Selectable elements as collectSelections describes them, and elements
\* with metadata missing.
SelectElements ==
  { [id |-> "face", kind |-> "face",
     meta |-> [handle |-> "shape:1", createdBy |-> "F1", planar |-> TRUE,
               area |-> 4, center |-> JArray(<<0, 0, 5>>), centerZ |-> 5,
               normal |-> "+Z"]],
    [id |-> "face", kind |-> "face",
     meta |-> [handle |-> "shape:2", createdBy |-> "F1", planar |-> TRUE,
               area |-> 4, center |-> JArray(<<0, 0, 0>>), centerZ |-> 0,
               normal |-> "-Z"]],
    [id |-> "face", kind |-> "face",
     meta |-> [handle |-> "shape:3", createdBy |-> "F2", planar |-> FALSE,
               area |-> 9, center |-> JArray(<<2, 0, 2>>), centerZ |-> 2]],
    [id |-> "face", kind |-> "face",
     meta |-> [handle |-> "shape:4", createdBy |-> "F2", planar |-> TRUE,
               area |-> -2, center |-> JArray(<<2, 0, 5>>), centerZ |-> 5,
               normal |-> "+Z"]],
    [id |-> "solid", kind |-> "solid",
     meta |-> [handle |-> "shape:0", createdBy |-> "F1", role |-> "body",
               center |-> JArray(<<0, 0, 2>>), centerZ |-> 2]],
    [id |-> "edge", kind |-> "edge",
     meta |-> [handle |-> "shape:5", createdBy |-> "F2", role |-> "edge",
               center |-> JArray(<<2, 0, 5>>), centerZ |-> 5]] }

\* Named outputs: one as collectSelections writes it (handle and role only),
\* one with a center, one whose center is too short an array, one whose
\* center is not an array.
SelectOutputs ==
  [k \in {"body:main", "ref:far", "ref:bad", "ref:str"} |->
     CASE k = "body:main" ->
            [id |-> "F1:body:main", kind |-> "solid",
             meta |-> [handle |-> "shape:0", role |-> "body"]]
       [] k = "ref:far" ->
            [id |-> "F2:ref:far", kind |-> "solid",
             meta |-> [handle |-> "shape:6", role |-> "body",
                       center |-> JArray(<<2, 0, 5>>)]]
       [] k = "ref:bad" ->
            [id |-> "F2:ref:bad", kind |-> "solid",
             meta |-> [handle |-> "shape:7", center |-> JArray(<<0, 0>>)]]
       [] k = "ref:str" ->
            [id |-> "F2:ref:str", kind |-> "solid",
             meta |-> [handle |-> "shape:8", center |-> JString("top")]]]

\* The longest selections list of a model resolveSelector is applied to.
MaxCand == 2

\* The longest predicate list of a selector.
MaxPreds == 2

\* The longest rank pipeline of a selector.
MaxRank == 2

SelectPredicates ==
  { [kind |-> "pred.planar"],
    [kind |-> "pred.normal", value |-> "+Z"],
    [kind |-> "pred.normal"],
    [kind |-> "pred.createdBy", featureId |-> "F1"],
    [kind |-> "pred.role", value |-> "body"],
    [kind |-> "pred.tagged", value |-> "t"] }

NamedSelector(name) == [kind |-> "selector.named", name |-> name]

SelectRankRules ==
  { [kind |-> "rank.maxArea"],
    [kind |-> "rank.minZ"],
    [kind |-> "rank.maxZ"],
    [kind |-> "rank.closestTo", target |-> NamedSelector("body:main")],
    [kind |-> "rank.closestTo", target |-> NamedSelector("ref:far")],
    [kind |-> "rank.closestTo", target |-> NamedSelector("ref:bad")],
    [kind |-> "rank.closestTo", target |-> NamedSelector("ref:str")],
    [kind |-> "rank.closestTo", target |-> NamedSelector("missing")],
    [kind |-> "rank.closestTo",
     target |-> [kind |-> "selector.face",
                 predicates |-> <<[kind |-> "pred.normal", value |-> "+Z"]>>,
                 rank |-> <<[kind |-> "rank.closestTo",
                             target |-> NamedSelector("ref:far")]>>]],
    [kind |-> "rank.shuffle"] }

SelectModels(outputs) ==
  { [outputs |-> o, selections |-> s] :
      o \in outputs, s \in SeqsUpTo(SelectElements, MaxCand) }

\* Selectors that filter: every selector kind, predicate lists, no ranking.
FilterSelectors ==
  { [kind |-> k, predicates |-> ps] :
      k \in {"selector.face", "selector.edge", "selector.solid", "selector.any", ""},
      ps \in SeqsUpTo(SelectPredicates, MaxPreds) }
  \cup { [predicates |-> ps] : ps \in SeqsUpTo(SelectPredicates, MaxPreds) }

\* Selectors that rank: faces, or elements of any kind, through a pipeline.
RankSelectors ==
  { [kind |-> "selector.face", rank |-> rs] :
      rs \in SeqsUpTo(SelectRankRules, MaxRank) }
  \cup { [rank |-> rs] : rs \in SeqsUpTo(SelectRankRules, MaxRank) }

\* Named selectors, with predicates and rank stages the lookup must ignore.
NamedSelectors ==
  { [kind |-> "selector.named", name |-> n, predicates |-> ps, rank |-> rs] :
      n \in {"body:main", "ref:far", "missing"},
      ps \in {<<>>, <<[kind |-> "pred.planar"]>>},
      rs \in {<<>>, <<[kind |-> "rank.maxArea"]>>,
              <<[kind |-> "rank.closestTo", target |-> NamedSelector("missing")]>>} }
  \cup { [kind |-> "selector.named"] }

SelectInputs ==
  (FilterSelectors \X SelectModels({<<>>}))
    \cup (RankSelectors \X SelectModels({SelectOutputs}))
    \cup (NamedSelectors \X SelectModels({<<>>, SelectOutputs}))

InitSelect ==
  /\ \E input \in SelectInputs : qSel = input[1] /\ qModel = input[2]
  /\ qOut = <<>>
  /\ qPc = "args"
  /\ qStack = <<>>
  /\ MergeIdle
  /\ ServerIdle
  /\ ThreadsIdle
  /\ AnnotateIdle

\* A resolution that takes the element it returns out of the model.
Resolve_consuming ==
  /\ qPc \in {"args", "done"}
  /\ qOut' = resolveSelector(qSel, qModel)
  /\ qPc' = IF qPc = "args" THEN "done" ELSE "again"
  /\ qModel' = [qModel EXCEPT !.selections =
                  SelectSeq(@, LAMBDA sel : ~qOut'.ok \/ sel # qOut'.sel)]
  /\ UNCHANGED <<qSel, qStack>>
  /\ UNCHANGED mergeVars
  /\ UNCHANGED serverVars
  /\ UNCHANGED threadVars
  /\ UNCHANGED annotateVars

\* auto selection = resolveSelector(selector, current, error); the caller
\* resolves the selector ("done") and may resolve it once more ("again").
\* selector and current are const references.
Resolve ==
  /\ qPc \in {"args", "done"}
  /\ qOut' = resolveSelector(qSel, qModel)
  /\ qPc' = IF qPc = "args" THEN "done" ELSE "again"
  /\ UNCHANGED <<qSel, qModel, qStack>>
  /\ UNCHANGED mergeVars
  /\ UNCHANGED serverVars
  /\ UNCHANGED threadVars
  /\ UNCHANGED annotateVars

NextSelect == Resolve

SpecSelect == InitSelect /\ [][NextSelect]_vars

-----------------------------------------------------------------------------
(* resolveSelector call by call.  Each activation of the function is a     *)
(* record of qStack: the selector it was called on, where it stands, the   *)
(* candidates it holds, the index of the rank rule it is at, and the value *)
(* its call on a target returned.  Every activation reads the same         *)
(* current, qModel.                                                        *)

\* The deepest stack of activations the model follows.
MaxDepth == 4

\* A closestTo rule without a target member.
TargetlessRule == [kind |-> "rank.closestTo"]

\* Selectors with a closestTo rule that has no target, alone, after another
\* stage, and inside the target of another closestTo rule.
TargetlessSelectors ==
  { [rank |-> <<TargetlessRule>>],
    [kind |-> "selector.face", rank |-> <<[kind |-> "rank.maxArea"], TargetlessRule>>],
    [rank |-> <<[kind |-> "rank.closestTo", target |-> [rank |-> <<TargetlessRule>>]]>>] }

CallInputs ==
  (RankSelectors \cup NamedSelectors \cup TargetlessSelectors)
    \X SelectModels({SelectOutputs})

InitCalls ==
  /\ \E input \in CallInputs : qSel = input[1] /\ qModel = input[2]
  /\ qOut = <<>>
  /\ qPc = "args"
  /\ qStack = <<>>
  /\ MergeIdle
  /\ ServerIdle
  /\ ThreadsIdle
  /\ AnnotateIdle

\* The activation of a call of resolveSelector on a selector.
Activation(selector) ==
  [selector |-> selector, pc |-> "entry", candidates |-> <<>>, i |-> 0,
   ret |-> <<>>]

Top == qStack[Len(qStack)]

\* The stack with its innermost activation replaced.
WithTop(frame) == [qStack EXCEPT ![Len(qStack)] = frame]

\* The rule the innermost activation is at.
TopRule == value(Top.selector, "rank", <<>>)[Top.i]

\* The innermost activation is in its rank loop and the loop goes on: a
\* rule is left and more than one candidate is left.
InRankLoop ==
  /\ qPc = "running"
  /\ Top.pc = "rank"
  /\ Top.i <= Len(value(Top.selector, "rank", <<>>))
  /\ Len(Top.candidates) > 1

\* return: the innermost activation ends and hands its outcome to its
\* caller, the activation below it or the caller of the outermost call.
Return(outcome) ==
  IF Len(qStack) = 1
  THEN /\ qStack' = <<>>
       /\ qOut' = outcome
       /\ qPc' = "done"
  ELSE /\ qStack' = [SubSeq(qStack, 1, Len(qStack) - 1)
                       EXCEPT ![Len(qStack) - 1].ret = outcome,
                              ![Len(qStack) - 1].pc = "returned"]
       /\ UNCHANGED <<qOut, qPc>>

\* resolveSelector(selector, current, error) is called.
CallResolve ==
  /\ qPc = "args"
  /\ qStack' = <<Activation(qSel)>>
  /\ qPc' = "running"
  /\ UNCHANGED <<qSel, qModel, qOut>>
  /\ UNCHANGED mergeVars
  /\ UNCHANGED serverVars
  /\ UNCHANGED threadVars
  /\ UNCHANGED annotateVars

\* The function up to its rank loop: the named lookup, or the candidates
\* loop and the check that a candidate was found.
EnterSelector ==
  /\ qPc = "running"
  /\ Top.pc = "entry"
  /\ IF value(Top.selector, "kind", "") = "selector.named"
     THEN Return(resolveNamed(Top.selector, qModel))
     ELSE IF filterCandidates(Top.selector, qModel) = <<>>
          THEN Return(Failed("Selector matched 0 candidates"))
          ELSE /\ qStack' = WithTop([Top EXCEPT
                                !.pc = "rank",
                                !.candidates = filterCandidates(Top.selector, qModel),
                                !.i = 1])
               /\ UNCHANGED <<qOut, qPc>>
  /\ UNCHANGED <<qSel, qModel>>
  /\ UNCHANGED mergeVars
  /\ UNCHANGED serverVars
  /\ UNCHANGED threadVars
  /\ UNCHANGED annotateVars

\* One iteration of the rank loop on a rule that is not a closestTo rule.
RankStage ==
  /\ InRankLoop
  /\ value(TopRule, "kind", "") # "rank.closestTo"
  /\ LET ruleKind == value(TopRule, "kind", "")
         filtered ==
           CASE ruleKind = "rank.maxArea" -> rankMaxArea(Top.candidates)
             [] ruleKind = "rank.minZ" -> rankMinZ(Top.candidates)
             [] ruleKind = "rank.maxZ" -> rankMaxZ(Top.candidates)
             [] OTHER -> Top.candidates
     IN qStack' = WithTop([Top EXCEPT !.candidates = filtered, !.i = @ + 1])
  /\ UNCHANGED <<qSel, qModel, qOut, qPc>>
  /\ UNCHANGED mergeVars
  /\ UNCHANGED serverVars
  /\ UNCHANGED threadVars
  /\ UNCHANGED annotateVars

\* A closestTo rule: resolveSelector(rule["target"], current, innerErr) is
\* called, on the target member of the rule and on the same current.
CallTarget ==
  /\ InRankLoop
  /\ value(TopRule, "kind", "") = "rank.closestTo"
  /\ contains(TopRule, "target")
  /\ qStack' = Append(qStack, Activation(TopRule["target"]))
  /\ UNCHANGED <<qSel, qModel, qOut, qPc>>
  /\ UNCHANGED mergeVars
  /\ UNCHANGED serverVars
  /\ UNCHANGED threadVars
  /\ UNCHANGED annotateVars

\* A closestTo rule without a target member.  rule is a const json:
\* operator[] on a key the object does not hold is undefined behaviour, and
\* the library asserts that the key is found.  The assertion ends the
\* process; the call never returns.
AbortOnMissingTarget ==
  /\ InRankLoop
  /\ value(TopRule, "kind", "") = "rank.closestTo"
  /\ ~contains(TopRule, "target")
  /\ qPc' = "aborted"
  /\ UNCHANGED <<qSel, qModel, qOut, qStack>>
  /\ UNCHANGED mergeVars
  /\ UNCHANGED serverVars
  /\ UNCHANGED threadVars
  /\ UNCHANGED annotateVars

\* The same rule in a build without assertions: the reference that
\* operator[] returns is not a member of the rule, and what the call reads
\* through it is any value, the selector being resolved among them.
ReadMissingTarget ==
  /\ InRankLoop
  /\ value(TopRule, "kind", "") = "rank.closestTo"
  /\ ~contains(TopRule, "target")
  /\ Len(qStack) < MaxDepth
  /\ \E garbage \in {qSel, NamedSelector("body:main"), NamedSelector("missing")} :
       qStack' = Append(qStack, Activation(garbage))
  /\ UNCHANGED <<qSel, qModel, qOut, qPc>>
  /\ UNCHANGED mergeVars
  /\ UNCHANGED serverVars
  /\ UNCHANGED threadVars
  /\ UNCHANGED annotateVars

\* The call on the target has returned: its failure is returned, or its
\* center is read and the candidates nearest to it are kept.
TargetReturned ==
  /\ qPc = "running"
  /\ Top.pc = "returned"
  /\ IF ~Top.ret.ok
     THEN Return(Failed(Top.ret.error))
     ELSE IF \/ ~is_array(targetCenter(Top.ret.sel))
             \/ size(targetCenter(Top.ret.sel)) < 3
          THEN Return(Failed("Selector requires center metadata"))
          ELSE /\ qStack' = WithTop([Top EXCEPT
                                !.pc = "rank",
                                !.candidates =
                                   rankClosest(@, targetCenter(Top.ret.sel).v),
                                !.i = @ + 1])
               /\ UNCHANGED <<qOut, qPc>>
  /\ UNCHANGED <<qSel, qModel>>
  /\ UNCHANGED mergeVars
  /\ UNCHANGED serverVars
  /\ UNCHANGED threadVars
  /\ UNCHANGED annotateVars

\* The rank loop has ended, by its last rule or by the break: one candidate
\* is returned, any other number is an ambiguity.
EndRanking ==
  /\ qPc = "running"
  /\ Top.pc = "rank"
  /\ ~InRankLoop
  /\ Return(resolveOutcome(Ranked(Top.candidates)))
  /\ UNCHANGED <<qSel, qModel>>
  /\ UNCHANGED mergeVars
  /\ UNCHANGED serverVars
  /\ UNCHANGED threadVars
  /\ UNCHANGED annotateVars

NextCalls ==
  \/ CallResolve
  \/ EnterSelector
  \/ RankStage
  \/ CallTarget
  \/ AbortOnMissingTarget
  \/ ReadMissingTarget
  \/ TargetReturned
  \/ EndRanking

\* The thread that serves the request runs the call to its end.
SpecCalls == InitCalls /\ [][NextCalls]_vars /\ WF_vars(NextCalls)

-----------------------------------------------------------------------------
(* ShapeRegistry and SessionManager.                                       *)

\* The longest run of requests the server model serves.
MaxRequests == 3

SessionIds == {"A", "B"}

\* map[key] = val on an unordered_map: insert, or overwrite the entry.
Put(map, key, val) ==
  [k \in DOMAIN map \cup {key} |-> IF k = key THEN val ELSE map[k]]

\* A registry whose counter starts again after four handles.
registerShape_recycle(registry, shape) ==
  [registry |-> [shapes_  |-> Put(registry.shapes_,
                                  "shape:" \o ToString(registry.counter_), shape),
                 counter_ |-> (registry.counter_ + 1) % 4],
   handle   |-> "shape:" \o ToString(registry.counter_)]

\* A registry whose counter is never advanced: every shape gets "shape:0".
registerShape_noIncrement(registry, shape) ==
  [registry |-> [shapes_  |-> Put(registry.shapes_,
                                  "shape:" \o ToString(registry.counter_), shape),
                 counter_ |-> registry.counter_],
   handle   |-> "shape:" \o ToString(registry.counter_)]

\* ShapeRegistry::registerShape: the registry afterwards and the handle.
registerShape(registry, shape) ==
  [registry |-> [shapes_  |-> Put(registry.shapes_,
                                  "shape:" \o ToString(registry.counter_), shape),
                 counter_ |-> registry.counter_ + 1],
   handle   |-> "shape:" \o ToString(registry.counter_)]

Shape(shape) == [ok |-> TRUE, shape |-> shape, error |-> ""]
Thrown(msg) == [ok |-> FALSE, shape |-> <<>>, error |-> msg]

\* ShapeRegistry::get: the shape stored under the handle, or the exception.
ShapeRegistry_get(registry, handle) ==
  IF handle \notin DOMAIN registry.shapes_
  THEN Thrown("Unknown shape handle: " \o handle)
  ELSE Shape(registry.shapes_[handle])

\* A default-constructed Session.
NewSession ==
  [registry |-> [shapes_ |-> <<>>, counter_ |-> 0], current |-> EmptyResult]

\* SessionManager::get: the table afterwards; a missing session is created.
SessionManager_get(table, sessionId) ==
  IF sessionId \notin DOMAIN table
  THEN Put(table, sessionId, NewSession)
  ELSE table

-----------------------------------------------------------------------------
(* The geometry kernel, as far as collectSelections reads it: what an       *)
(* extruded solid is explored into.  Vectors of directions are in tenths.   *)

\* A TopoDS_Shape: the solid built while serving a request on a session
\* whose registry counter was serial, or one of its faces or edges.
TopoShape(sessionId, serial, part, index) ==
  [origin |-> sessionId, serial |-> serial, part |-> part, index |-> index]

\* What the kernel explores an extruded solid into: a planar face that
\* looks up, a curved face, and one edge.
Solids ==
  { [center |-> <<0, 0, 1>>,
     faces  |-> << [area |-> 4, center |-> <<0, 0, 2>>, plane |-> TRUE,
                    dir |-> <<0, 0, 10>>],
                   [area |-> 6, center |-> <<1, 0, 1>>, plane |-> FALSE] >>,
     edges  |-> << [center |-> <<1, 0, 2>>] >>] }

Abs(x) == IF x < 0 THEN -x ELSE x

\* axisDirectionFromVector, on a vector in tenths (0.9 is 9).
axisDirectionFromVector(vec) ==
  LET ax == Abs(vec[1])
      ay == Abs(vec[2])
      az == Abs(vec[3])
      maxVal == Max(ax, Max(ay, az))
  IN IF maxVal < 9 THEN ""
     ELSE IF ax >= ay /\ ax >= az THEN (IF vec[1] >= 0 THEN "+X" ELSE "-X")
     ELSE IF ay >= ax /\ ay >= az THEN (IF vec[2] >= 0 THEN "+Y" ELSE "-Y")
     ELSE (IF vec[3] >= 0 THEN "+Z" ELSE "-Z")

\* meta[key] = val when the condition of the assignment holds.
PutIf(cond, map, key, val) == IF cond THEN Put(map, key, val) ELSE map

makeSolidMeta(handle, ownerKey, featureId, center, tags) ==
  PutIf(~is_null(tags),
        [handle |-> handle, ownerHandle |-> handle,
         ownerKey |-> JString(ownerKey), createdBy |-> featureId,
         role |-> "body", center |-> JArray(center), centerZ |-> center[3]],
        "featureTags", tags)

makeFaceMeta(handle, ownerHandle, ownerKey, featureId, center, area, planar, normal, hasNormalVec, normalVec, tags) ==
  PutIf(~is_null(tags),
    PutIf(hasNormalVec,
      PutIf(normal # "",
            [handle |-> handle, ownerHandle |-> ownerHandle,
             ownerKey |-> JString(ownerKey), createdBy |-> featureId,
             planar |-> planar, area |-> area,
             center |-> JArray(center), centerZ |-> center[3]],
            "normal", normal),
      "normalVec", normalVec),
    "featureTags", tags)

makeEdgeMeta(handle, ownerHandle, ownerKey, featureId, center, tags) ==
  PutIf(~is_null(tags),
        [handle |-> handle, ownerHandle |-> ownerHandle,
         ownerKey |-> JString(ownerKey), createdBy |-> featureId,
         role |-> "edge", center |-> JArray(center), centerZ |-> center[3]],
        "featureTags", tags)

RECURSIVE registerShapes(_, _, _)
\* The registerShape calls of collectSelections from the i-th shape on, in
\* the order of the explorers: reg holds the registry before the first call
\* and what each call so far returned.
registerShapes(reg, shapes, i) ==
  IF i > Len(shapes) THEN reg
  ELSE registerShapes(Append(reg, registerShape(reg[Len(reg)].registry, shapes[i])),
                      shapes, i + 1)

\* The KernelResult collectSelections returns, given the handle
\* registerShape returned for the solid, for each face and for each edge, in
\* that order.
builtResult(solid, handles, featureId, ownerKey, tags) ==
  LET nFaces == Len(solid.faces)
      nEdges == Len(solid.edges)
      ownerHandle == handles[1]
      solidSelection ==
        [id |-> "solid", kind |-> "solid",
         meta |-> makeSolidMeta(ownerHandle, ownerKey, featureId,
                                solid.center, tags)]
      faceSelection(f) ==
        LET face == solid.faces[f]
            planar == face.plane
            normalDir == IF planar THEN axisDirectionFromVector(face.dir) ELSE ""
        IN [id |-> "face", kind |-> "face",
            meta |-> makeFaceMeta(handles[1 + f], ownerHandle, ownerKey,
                                  featureId, face.center, face.area, planar,
                                  normalDir, planar,
                                  IF planar THEN face.dir ELSE <<>>, tags)]
      edgeSelection(e) ==
        [id |-> "edge", kind |-> "edge",
         meta |-> makeEdgeMeta(handles[1 + nFaces + e], ownerHandle,
                               ownerKey, featureId, solid.edges[e].center, tags)]
      output ==
        [id |-> featureId \o ":" \o ownerKey, kind |-> "solid",
         meta |-> [handle |-> ownerHandle, role |-> "body"]]
  IN [outputs    |-> Put(<<>>, ownerKey, output),
      selections |-> <<solidSelection>>
                       \o [f \in 1..nFaces |-> faceSelection(f)]
                       \o [e \in 1..nEdges |-> edgeSelection(e)]]

\* collectSelections.  solid is what the kernel explores the shape into;
\* failAt is the number of registerShape calls made before a kernel call
\* threw (shapeCenter, TopoDS::Face, TopoDS::Edge), or -1 when none did.
\* The value is [ok, registry, registered, result]: the registry as the call
\* leaves it, the handle registerShape returned for each shape, and the
\* KernelResult.
collectSelections(solid, sessionId, registry, featureId, ownerKey, tags, failAt) ==
  LET nFaces == Len(solid.faces)
      nEdges == Len(solid.edges)
      total == 1 + nFaces + nEdges
      serial == registry.counter_
      shapeAt(i) ==
        IF i = 1 THEN TopoShape(sessionId, serial, "solid", 0)
        ELSE IF i <= 1 + nFaces THEN TopoShape(sessionId, serial, "face", i - 1)
        ELSE TopoShape(sessionId, serial, "edge", i - 1 - nFaces)
      calls == IF failAt < 0 THEN total ELSE failAt
      regs == registerShapes(<<[registry |-> registry, handle |-> ""]>>,
                             [i \in 1..calls |-> shapeAt(i)], 1)
      reg == [i \in 0..calls |-> regs[i + 1]]
      registered ==
        [i \in 1..calls |-> [handle |-> reg[i].handle, shape |-> shapeAt(i)]]
  IN IF failAt >= 0
     THEN [ok |-> FALSE, registry |-> reg[calls].registry,
           registered |-> registered, result |-> EmptyResult]
     ELSE [ok |-> TRUE, registry |-> reg[calls].registry,
           registered |-> registered,
           result |-> builtResult(solid, [i \in 1..total |-> reg[i].handle],
                                  featureId, ownerKey, tags)]

-----------------------------------------------------------------------------
(* parseKernelResult and serializeKernelResult.  A JSON value that is not   *)
(* an object is one of the typed values [t, v].                             *)

is_object(j) == "t" \notin DOMAIN j

RECURSIVE SetToSeq(_)
\* The elements of a set in the order an iteration visits them.
SetToSeq(S) ==
  IF S = {} THEN <<>>
  ELSE LET x == CHOOSE y \in S : TRUE
       IN <<x>> \o SetToSeq(S \ {x})

serializeKernelResult(result) ==
  LET keys == SetToSeq(DOMAIN result.outputs)
  IN [outputs |->
        [i \in 1..Len(keys) |->
           [key |-> keys[i],
            object |-> [id   |-> result.outputs[keys[i]].id,
                        kind |-> result.outputs[keys[i]].kind,
                        meta |-> result.outputs[keys[i]].meta]]],
      selections |->
        [i \in 1..Len(result.selections) |->
           [id   |-> result.selections[i].id,
            kind |-> result.selections[i].kind,
            meta |-> result.selections[i].meta]]]

parseKernelResult(doc) ==
  IF ~is_object(doc) THEN EmptyResult
  ELSE
    LET entries == value(doc, "outputs", <<>>)
        object(entry) ==
          [id   |-> value(entry["object"], "id", ""),
           kind |-> value(entry["object"], "kind", ""),
           meta |-> value(entry["object"], "meta", <<>>)]
        outputs[i \in 0..Len(entries)] ==
          IF i = 0 THEN <<>>
          ELSE Put(outputs[i - 1],
                   value(entries[i], "key", object(entries[i]).id),
                   object(entries[i]))
        selections == value(doc, "selections", <<>>)
    IN [outputs    |-> outputs[Len(entries)],
        selections |->
          [i \in 1..Len(selections) |->
             [id   |-> value(selections[i], "id", ""),
              kind |-> value(selections[i], "kind", ""),
              meta |-> value(selections[i], "meta", <<>>)]]]

-----------------------------------------------------------------------------
(* The exec-feature handler.                                               *)

\* The statuses a kernel exception can end a request with: 400 when the
\* handler's catch of std::exception takes it, 500 when the server's does.
KernelFailureStatuses == {400, 500}

KernelOperationFailed == "kernel operation failed"

\* buildProfileFace: the message of the exception thrown, "" when a face is
\* built.
buildProfileFace(profile) ==
  LET kind == value(profile, "kind", "")
  IN IF kind = "profile.rectangle" THEN ""
     ELSE IF kind = "profile.circle" THEN ""
     ELSE IF kind = "profile.poly"
          THEN (IF value(profile, "sides", 0) < 3
                THEN "profile.poly requires sides >= 3" ELSE "")
          ELSE "Unsupported profile kind: " \o kind

\* What the handler leaves: the session table, what registerShape was called
\* with and returned, and the response.
Served(table, registered, status, error, body) ==
  [table |-> table, registered |-> registered, status |-> status,
   error |-> error, body |-> body]

\* A handler that merges the new feature onto the session's current model
\* and not onto the upstream document of the request.
execFeature_ontoCurrent(table, sessionId, upstreamDoc, feature, solid, failAt, failStatus) ==
  LET opened == SessionManager_get(table, sessionId)
      session == opened[sessionId]
      upstream == parseKernelResult(upstreamDoc)
      kind == value(feature, "kind", "")
      featureId == value(feature, "id", "feature")
      tags == value(feature, "tags", JArray(<<>>))
      profile == value(feature, "profile", <<>>)
      depthJson == value(feature, "depth", JNumber("0"))
      resultKey == value(feature, "result", "body:main")
      collected == collectSelections(solid, sessionId, session.registry,
                                     featureId, resultKey, tags, failAt)
      built == collected.result
      merged == mergeResults(session.current, built)
  IN IF kind # "feature.extrude"
     THEN Served(opened, <<>>, 400, "Unsupported feature kind: " \o kind, <<>>)
     ELSE IF value(profile, "kind", "") = "profile.ref"
     THEN Served(opened, <<>>, 400,
                 "profile.ref not supported in native backend yet", <<>>)
     ELSE IF buildProfileFace(profile) # ""
     THEN Served(opened, <<>>, 400, buildProfileFace(profile), <<>>)
     ELSE IF is_string(depthJson) /\ depthJson.v = "throughAll"
     THEN Served(opened, <<>>, 400,
                 "throughAll not supported in native backend yet", <<>>)
     ELSE IF failAt = 0
     THEN Served(opened, <<>>, failStatus, KernelOperationFailed, <<>>)
     ELSE IF ~collected.ok
     THEN Served(Put(opened, sessionId,
                     [registry |-> collected.registry,
                      current  |-> session.current]),
                 collected.registered, failStatus, KernelOperationFailed, <<>>)
     ELSE Served(Put(opened, sessionId,
                     [registry |-> collected.registry, current |-> merged]),
                 collected.registered, 200, "",
                 [result |-> serializeKernelResult(built)])

\* The body of the POST /v1/exec-feature handler, after json::parse.
\* failAt = 0 is a kernel exception while the profile is built or extruded;
\* failAt > 0 is one inside collectSelections (see there); -1 is none.
execFeature(table, sessionId, upstreamDoc, feature, solid, failAt, failStatus) ==
  LET opened == SessionManager_get(table, sessionId)
      session == opened[sessionId]
      upstream == parseKernelResult(upstreamDoc)
      kind == value(feature, "kind", "")
      featureId == value(feature, "id", "feature")
      tags == value(feature, "tags", JArray(<<>>))
      profile == value(feature, "profile", <<>>)
      depthJson == value(feature, "depth", JNumber("0"))
      resultKey == value(feature, "result", "body:main")
      collected == collectSelections(solid, sessionId, session.registry,
                                     featureId, resultKey, tags, failAt)
      built == collected.result
      merged == mergeResults(upstream, built)
  IN IF kind # "feature.extrude"
     THEN Served(opened, <<>>, 400, "Unsupported feature kind: " \o kind, <<>>)
     ELSE IF value(profile, "kind", "") = "profile.ref"
     THEN Served(opened, <<>>, 400,
                 "profile.ref not supported in native backend yet", <<>>)
     ELSE IF buildProfileFace(profile) # ""
     THEN Served(opened, <<>>, 400, buildProfileFace(profile), <<>>)
     ELSE IF is_string(depthJson) /\ depthJson.v = "throughAll"
     THEN Served(opened, <<>>, 400,
                 "throughAll not supported in native backend yet", <<>>)
     ELSE IF failAt = 0
     THEN Served(opened, <<>>, failStatus, KernelOperationFailed, <<>>)
     ELSE IF ~collected.ok
     THEN Served(Put(opened, sessionId,
                     [registry |-> collected.registry,
                      current  |-> session.current]),
                 collected.registered, failStatus, KernelOperationFailed, <<>>)
     ELSE Served(Put(opened, sessionId,
                     [registry |-> collected.registry, current |-> merged]),
                 collected.registered, 200, "",
                 [result |-> serializeKernelResult(built)])

-----------------------------------------------------------------------------
(* The mesh and export-step handlers.                                      *)

\* findSchemaEnumMatch over the kernel's write.step.schema enumeration
\* (AP214CD, AP214DIS, AP203, AP214IS, AP242DIS): the first value that
\* contains the token, compared in upper case; "" when none does.
findSchemaEnumMatch(token) ==
  CASE token \in {"AP242", "ap242"} -> "AP242DIS"
    [] token \in {"AP214", "ap214"} -> "AP214CD"
    [] token \in {"AP203", "ap203"} -> "AP203"
    [] OTHER -> ""

\* writeStepSchema: the write.step.schema setting afterwards.
writeStepSchema(schema, setting) ==
  IF schema = "" THEN setting
  ELSE IF findSchemaEnumMatch(schema) # "" THEN findSchemaEnumMatch(schema)
  ELSE schema

\* exportStep: the process state afterwards and the bytes read back from the
\* scratch file, or the exception thrown when the writer does not end Done.
exportStep(shape, schema, proc, writeFails) ==
  LET setting == writeStepSchema(schema, proc.schema)
      written == [shape |-> shape, schema |-> setting, pmi |-> <<>>]
  IN IF writeFails
     THEN [ok |-> FALSE, error |-> "Failed to write STEP", bytes |-> <<>>,
           process |-> [proc EXCEPT !.schema = setting]]
     ELSE [ok |-> TRUE, error |-> "", bytes |-> written,
           process |-> [proc EXCEPT !.schema = setting, !.stepFile = written]]

-----------------------------------------------------------------------------
(* The export-step-pmi handler: geometry references and the annotation      *)
(* document.                                                                *)

\* A resolver that looks the handle up whatever the reference kind is.
geometryOfSelection_unchecked(kind, selection, registry) ==
  IF ~selection.ok THEN Thrown(selection.error)
  ELSE IF value(selection.sel.meta, "handle", "") = ""
  THEN Thrown("Selection missing handle metadata")
  ELSE ShapeRegistry_get(registry, value(selection.sel.meta, "handle", ""))

\* A resolver that hands whatever handle it reads to the registry.
geometryOfSelection_noHandleCheck(kind, selection, registry) ==
  IF ~selection.ok THEN Thrown(selection.error)
  ELSE IF kind = "ref.surface" /\ selection.sel.kind # "face"
  THEN Thrown("Expected face selection for ref.surface")
  ELSE IF kind = "ref.edge" /\ selection.sel.kind # "edge"
  THEN Thrown("Expected edge selection for ref.edge")
  ELSE IF kind \in {"ref.axis", "ref.point", "ref.frame"}
  THEN Thrown("Geometry ref kind not supported yet: " \o kind)
  ELSE ShapeRegistry_get(registry, value(selection.sel.meta, "handle", ""))

\* resolveGeometryRef once the selector is resolved: the checks of the
\* reference kind against the selection, then the registry lookup.
geometryOfSelection(kind, selection, registry) ==
  IF ~selection.ok THEN Thrown(selection.error)
  ELSE IF kind = "ref.surface" /\ selection.sel.kind # "face"
  THEN Thrown("Expected face selection for ref.surface")
  ELSE IF kind = "ref.edge" /\ selection.sel.kind # "edge"
  THEN Thrown("Expected edge selection for ref.edge")
  ELSE IF kind \in {"ref.axis", "ref.point", "ref.frame"}
  THEN Thrown("Geometry ref kind not supported yet: " \o kind)
  ELSE IF value(selection.sel.meta, "handle", "") = ""
  THEN Thrown("Selection missing handle metadata")
  ELSE ShapeRegistry_get(registry, value(selection.sel.meta, "handle", ""))

\* resolveGeometryRef: the shape the reference resolves to, or the exception.
resolveGeometryRef(ref, current, registry) ==
  IF ~is_object(ref) THEN Thrown("Invalid geometry ref")
  ELSE geometryOfSelection(value(ref, "kind", ""),
                           resolveSelector(value(ref, "selector", <<>>), current),
                           registry)

mapDatumModifier(mod) ==
  CASE mod = "MMB" -> "MaximumMaterialRequirement"
    [] mod = "LMB" -> "LeastMaterialRequirement"
    [] OTHER -> "Basic"

\* mapTolModifier: the modifier, or "" for std::nullopt.
mapTolModifier(mod) ==
  CASE mod = "MMC" -> "Maximum_Material_Requirement"
    [] mod = "LMC" -> "Least_Material_Requirement"
    [] mod = "FREE_STATE" -> "Free_State"
    [] mod = "TANGENT_PLANE" -> "Tangent_Plane"
    [] mod = "STATISTICAL" -> "Statistical_Tolerance"
    [] OTHER -> ""

mapToleranceType(kind) ==
  CASE kind = "constraint.surfaceProfile" -> "ProfileOfSurface"
    [] kind = "constraint.flatness" -> "Flatness"
    [] kind = "constraint.parallelism" -> "Parallelism"
    [] kind = "constraint.perpendicularity" -> "Perpendicularity"
    [] kind = "constraint.position" -> "Position"
    [] OTHER -> "None"

\* parseScalar: the number, the value of a literal expression, or 0.
parseScalar(val) ==
  IF is_object(val)
  THEN (IF value(val, "kind", "") = "expr.literal"
        THEN value(val, "value", "0") ELSE "0")
  ELSE (IF val.t = "number" THEN val.v ELSE "0")

\* One pass of the datums loop, on a datum whose target is resolved.
addDatum(added, datum, target) ==
  LET datumId == value(datum, "id", "")
      mods == value(datum, "modifiers", <<>>)
      record == [name |-> value(datum, "label", datumId),
                 target |-> target.shape,
                 modifiers |-> [m \in 1..Len(mods) |-> mapDatumModifier(mods[m])]]
  IN IF ~target.ok
     THEN [added EXCEPT !.error = target.error]
     ELSE [error |-> "",
           datums |-> Append(added.datums, record),
           datumLabels |-> PutIf(datumId # "", added.datumLabels, datumId,
                                 Len(added.datums) + 1)]

\* The datums loop of exportStepWithPmi.  The value is [error, datums,
\* datumLabels]: the exception that ended the loop ("" when none did), the
\* datum records added to the document, and the map from datum id to the
\* position of its record.
addDatums(datums, current, registry) ==
  LET step[i \in 0..Len(datums)] ==
        IF i = 0 THEN [error |-> "", datums |-> <<>>, datumLabels |-> <<>>]
        ELSE IF step[i - 1].error # "" THEN step[i - 1]
        ELSE addDatum(step[i - 1], datums[i],
                      resolveGeometryRef(value(datums[i], "target", <<>>),
                                         current, registry))
  IN step[Len(datums)]

\* The datum references of a constraint that datumLabels resolves.
linkedDatums(refs, datumLabels) ==
  [r \in 1..Len(refs) |-> datumLabels[value(refs[r], "datum", "")]]

\* A pass of the constraints loop that stops linking at the first datum
\* reference that datumLabels does not resolve.
addConstraint_stopAtUnknown(added, constraint, target, datumLabels) ==
  LET kind == value(constraint, "kind", "")
      mods == value(constraint, "modifiers", <<>>)
      refs == value(constraint, "datum", <<>>)
      known == {r \in 1..Len(refs) :
                  \A q \in 1..r : value(refs[q], "datum", "") \in DOMAIN datumLabels}
      record ==
        [type |-> mapToleranceType(kind), target |-> target.shape,
         value |-> parseScalar(value(constraint, "tolerance", JNumber("0"))),
         diameter |-> (kind = "constraint.position"
                       /\ value(constraint, "zone", "") = "diameter"),
         modifiers |->
           SelectSeq([m \in 1..Len(mods) |-> mapTolModifier(mods[m])],
                     LAMBDA mapped : mapped # ""),
         datums |-> linkedDatums(SubSeq(refs, 1, Cardinality(known)), datumLabels)]
  IN IF ~target.ok
     THEN [added EXCEPT !.error = target.error]
     ELSE [error |-> "", tolerances |-> Append(added.tolerances, record)]

\* One pass of the constraints loop, on a constraint of a known kind whose
\* target is resolved.
addConstraint(added, constraint, target, datumLabels) ==
  LET kind == value(constraint, "kind", "")
      mods == value(constraint, "modifiers", <<>>)
      record ==
        [type |-> mapToleranceType(kind), target |-> target.shape,
         value |-> parseScalar(value(constraint, "tolerance", JNumber("0"))),
         diameter |-> (kind = "constraint.position"
                       /\ value(constraint, "zone", "") = "diameter"),
         modifiers |->
           SelectSeq([m \in 1..Len(mods) |-> mapTolModifier(mods[m])],
                     LAMBDA mapped : mapped # ""),
         datums |->
           linkedDatums(SelectSeq(value(constraint, "datum", <<>>),
                                  LAMBDA ref : value(ref, "datum", "")
                                                 \in DOMAIN datumLabels),
                        datumLabels)]
  IN IF ~target.ok
     THEN [added EXCEPT !.error = target.error]
     ELSE [error |-> "", tolerances |-> Append(added.tolerances, record)]

\* A constraints loop that resolves the target of every constraint, of a
\* known kind or not.
addConstraints_resolveFirst(constraints, current, registry, datumLabels) ==
  LET step[i \in 0..Len(constraints)] ==
        IF i = 0 THEN [error |-> "", tolerances |-> <<>>]
        ELSE IF step[i - 1].error # "" THEN step[i - 1]
        ELSE IF mapToleranceType(value(constraints[i], "kind", "")) = "None"
        THEN [step[i - 1] EXCEPT !.error =
                resolveGeometryRef(value(constraints[i], "target", <<>>),
                                   current, registry).error]
        ELSE addConstraint(step[i - 1], constraints[i],
                           resolveGeometryRef(
                             value(constraints[i], "target", <<>>),
                             current, registry),
                           datumLabels)
  IN step[Len(constraints)]

\* The constraints loop of exportStepWithPmi.  The value is [error,
\* tolerances].
addConstraints(constraints, current, registry, datumLabels) ==
  LET step[i \in 0..Len(constraints)] ==
        IF i = 0 THEN [error |-> "", tolerances |-> <<>>]
        ELSE IF step[i - 1].error # "" THEN step[i - 1]
        ELSE IF mapToleranceType(value(constraints[i], "kind", "")) = "None"
        THEN step[i - 1]
        ELSE addConstraint(step[i - 1], constraints[i],
                           resolveGeometryRef(
                             value(constraints[i], "target", <<>>),
                             current, registry),
                           datumLabels)
  IN step[Len(constraints)]

\* The end of exportStepWithPmi: the exception of a loop, or the write.
writeStepWithPmi(shape, added, constrained, withSchema, writeFails) ==
  IF added.error # ""
  THEN [ok |-> FALSE, error |-> added.error, bytes |-> <<>>,
        process |-> withSchema]
  ELSE IF constrained.error # ""
  THEN [ok |-> FALSE, error |-> constrained.error, bytes |-> <<>>,
        process |-> withSchema]
  ELSE IF writeFails
  THEN [ok |-> FALSE, error |-> "Failed to write STEP with PMI",
        bytes |-> <<>>, process |-> withSchema]
  ELSE [ok |-> TRUE, error |-> "",
        bytes |-> [shape |-> shape, schema |-> withSchema.schema,
                   pmi |-> [datums |-> added.datums,
                            tolerances |-> constrained.tolerances]],
        process |-> [withSchema EXCEPT !.pmiFile =
                       [shape |-> shape, schema |-> withSchema.schema,
                        pmi |-> [datums |-> added.datums,
                                 tolerances |-> constrained.tolerances]]]]

\* The two loops, the second with the datum labels the first has built.
annotate(pmiPayload, current, registry, added) ==
  [added |-> added,
   constrained |-> addConstraints(value(pmiPayload, "constraints", <<>>),
                                  current, registry, added.datumLabels)]

\* exportStepWithPmi: as exportStep, with the annotation document and the
\* scratch file of this operation.
exportStepWithPmi(shape, current, registry, pmiPayload, schema, proc, writeFails) ==
  LET annotated == annotate(pmiPayload, current, registry,
                            addDatums(value(pmiPayload, "datums", <<>>),
                                      current, registry))
  IN writeStepWithPmi(shape, annotated.added, annotated.constrained,
                      [proc EXCEPT !.schema = writeStepSchema(schema, proc.schema)],
                      writeFails)

\* The response of a request, with the request it answers.
Response(seq, op, sessionId, handle, status, error, body) ==
  [seq |-> seq, op |-> op, session |-> sessionId, handle |-> handle,
   status |-> status, error |-> error, body |-> body]

\* The handles a client can present: those any session was given, the empty
\* string and a handle no registry has issued.
PresentedHandles ==
  {"", "shape:99"}
    \cup UNION {{issued[s][i].handle : i \in 1..Len(issued[s])} : s \in SessionIds}

\* The upstream documents a client can send with a request on a session:
\* none, something that is not an object, the last partial result it
\* received, or the session's whole model.
UpstreamDocs(sessionId) ==
  {<<>>, JNull}
    \cup (IF sessionId \in DOMAIN sessions
          THEN {serializeKernelResult(sessions[sessionId].current)} ELSE {})
    \cup (IF resp.op = "exec-feature" /\ resp.status = 200
          THEN {resp.body.result} ELSE {})

ExtrudeFeature(id, result) ==
  [kind |-> "feature.extrude", id |-> id, result |-> result,
   profile |-> [kind |-> "profile.rectangle"], depth |-> JNumber("5")]

\* Features the handler builds.
Features ==
  { ExtrudeFeature("F1", "body:main"),
    ExtrudeFeature("F2", "body:main"),
    ExtrudeFeature("F2", "body:tool") }

\* Features the handler refuses before it builds anything.
RefusedFeatures ==
  { [kind |-> "feature.revolve", id |-> "F1"],
    [kind |-> "feature.extrude", id |-> "F1",
     profile |-> [kind |-> "profile.ref"]],
    [kind |-> "feature.extrude", id |-> "F1",
     profile |-> [kind |-> "profile.poly", sides |-> 2]],
    [kind |-> "feature.extrude", id |-> "F1",
     profile |-> [kind |-> "profile.star"]],
    [kind |-> "feature.extrude", id |-> "F1",
     profile |-> [kind |-> "profile.rectangle"],
     depth |-> JString("throughAll")] }

\* The requests of exec-feature on a session, as <<feature, upstream, solid,
\* failAt, failStatus>>: a refused feature and a kernel failure are served
\* the same whatever the parts of the request they do not reach are.
ExecRequests(sessionId) ==
  LET solid == CHOOSE x \in Solids : TRUE
  IN {<<f, <<>>, solid, -1, 400>> : f \in RefusedFeatures}
       \cup {<<f, u, g, -1, 400>> :
               f \in Features, u \in UpstreamDocs(sessionId), g \in Solids}
       \cup UNION {
              {<<ExtrudeFeature("F1", "body:main"), <<>>, g, k, st>> :
                 k \in 0..(1 + Len(g.faces) + Len(g.edges)),
                 st \in KernelFailureStatuses} : g \in Solids}

\* Session ids are interchangeable: the second one is used once the first
\* has a session.
UsableSessions ==
  {"A"} \cup (IF "A" \in DOMAIN sessions THEN SessionIds ELSE {})

ExportSchemas == {"AP242", "ap214", ""}

Init ==
  /\ sessions = <<>>
  /\ issued = [s \in SessionIds |-> <<>>]
  /\ applied = [s \in SessionIds |-> <<>>]
  /\ resp = Response(0, "none", "", "", 200, "", <<>>)
  /\ process = [schema |-> "AP214IS", stepFile |-> <<>>, pmiFile |-> <<>>]
  /\ MergeIdle
  /\ SelectIdle
  /\ ThreadsIdle
  /\ AnnotateIdle

\* POST /v1/exec-feature.
ExecFeature ==
  /\ resp.seq < MaxRequests
  /\ \E sessionId \in UsableSessions :
     \E request \in ExecRequests(sessionId) :
       LET served == execFeature(sessions, sessionId, request[2], request[1],
                                 request[3], request[4], request[5])
       IN /\ sessions' = served.table
          /\ issued' = [issued EXCEPT ![sessionId] = @ \o served.registered]
          /\ applied' =
               IF served.status # 200 THEN applied
               ELSE [applied EXCEPT ![sessionId] =
                       Append(@, [id |-> value(request[1], "id", "feature"),
                                  handle |-> served.registered[1].handle,
                                  upstream |-> request[2]])]
          /\ resp' = Response(resp.seq + 1, "exec-feature", sessionId, "",
                              served.status, served.error, served.body)
  /\ UNCHANGED process
  /\ UNCHANGED mergeVars
  /\ UNCHANGED selectVars
  /\ UNCHANGED threadVars
  /\ UNCHANGED annotateVars

\* The body of the POST /v1/mesh handler, after json::parse: the response's
\* status, error and body.  meshStatus is 200 when meshShape returns, else
\* the status its exception ends the request with.
meshRequest(registry, handle, meshStatus) ==
  LET found == ShapeRegistry_get(registry, handle)
  IN IF handle = ""
     THEN [status |-> 400, error |-> "Missing shape handle", body |-> <<>>]
     ELSE IF ~found.ok
     THEN [status |-> 400, error |-> found.error, body |-> <<>>]
     ELSE IF meshStatus # 200
     THEN [status |-> meshStatus, error |-> KernelOperationFailed, body |-> <<>>]
     ELSE [status |-> 200, error |-> "", body |-> [shape |-> found.shape]]

\* POST /v1/mesh.
Mesh ==
  /\ resp.seq < MaxRequests
  /\ \E sessionId \in UsableSessions, handle \in PresentedHandles :
       LET opened == SessionManager_get(sessions, sessionId)
           registry == opened[sessionId].registry
       IN \E meshStatus \in
               (IF handle \in DOMAIN registry.shapes_
                THEN KernelFailureStatuses \cup {200} ELSE {200}) :
            LET served == meshRequest(registry, handle, meshStatus)
            IN /\ sessions' = opened
               /\ resp' = Response(resp.seq + 1, "mesh", sessionId, handle,
                                   served.status, served.error, served.body)
  /\ UNCHANGED <<issued, applied, process>>
  /\ UNCHANGED mergeVars
  /\ UNCHANGED selectVars
  /\ UNCHANGED threadVars
  /\ UNCHANGED annotateVars

\* The body of the POST /v1/export-step handler, after json::parse.
exportStepRequest(registry, handle, schema, proc, writeFails) ==
  LET found == ShapeRegistry_get(registry, handle)
      exported == exportStep(found.shape, schema, proc, writeFails)
  IN IF handle = ""
     THEN [status |-> 400, error |-> "Missing shape handle", body |-> <<>>,
           process |-> proc]
     ELSE IF ~found.ok
     THEN [status |-> 400, error |-> found.error, body |-> <<>>,
           process |-> proc]
     ELSE [status |-> IF exported.ok THEN 200 ELSE 400,
           error |-> exported.error, body |-> exported.bytes,
           process |-> exported.process]

\* POST /v1/export-step.
ExportStep ==
  /\ resp.seq < MaxRequests
  /\ \E sessionId \in UsableSessions, handle \in PresentedHandles :
       LET opened == SessionManager_get(sessions, sessionId)
           registry == opened[sessionId].registry
       IN \E schema \in ExportSchemas :
          \E writeFails \in
               (IF handle \in DOMAIN registry.shapes_ THEN BOOLEAN ELSE {FALSE}) :
            LET served == exportStepRequest(registry, handle, schema, process,
                                            writeFails)
            IN /\ sessions' = opened
               /\ resp' = Response(resp.seq + 1, "export-step", sessionId,
                                   handle, served.status, served.error,
                                   served.body)
               /\ process' = served.process
  /\ UNCHANGED <<issued, applied>>
  /\ UNCHANGED mergeVars
  /\ UNCHANGED selectVars
  /\ UNCHANGED threadVars
  /\ UNCHANGED annotateVars

\* Geometry references of the annotations a client sends.
SurfaceRef(selector) == [kind |-> "ref.surface", selector |-> selector]

UpFace ==
  [kind |-> "selector.face",
   predicates |-> << [kind |-> "pred.normal", value |-> "+Z"] >>]

\* The pmi payloads a client sends: none, a datum with a flatness constraint
\* that refers to it and to a datum that is not there, a datum whose target
\* is ambiguous, a constraint of no known kind, and a reference to the
\* session's named output as a surface.
PmiPayloads ==
  { <<>>,
    [datums |-> << [id |-> "A", target |-> SurfaceRef(UpFace),
                    modifiers |-> <<"MMB", "RFS">>] >>,
     constraints |-> << [kind |-> "constraint.flatness",
                         target |-> SurfaceRef(UpFace),
                         tolerance |-> JNumber("2"),
                         modifiers |-> <<"MMC", "RFS">>,
                         datum |-> << [datum |-> "A"], [datum |-> "Z"] >>] >>],
    [datums |-> << [id |-> "A",
                    target |-> SurfaceRef([kind |-> "selector.face"])] >>],
    [constraints |-> << [kind |-> "constraint.roundness",
                         target |-> JNull] >>],
    [datums |-> << [id |-> "A",
                    target |-> SurfaceRef(NamedSelector("body:main"))] >>] }

\* The response of export-step-pmi for a handle the registry knows or not.
pmiResponse(handle, found, exported, proc) ==
  IF handle = ""
  THEN [status |-> 400, error |-> "Missing shape handle", body |-> <<>>,
        process |-> proc]
  ELSE IF ~found.ok
  THEN [status |-> 400, error |-> found.error, body |-> <<>>,
        process |-> proc]
  ELSE [status |-> IF exported.ok THEN 200 ELSE 400,
        error |-> exported.error, body |-> exported.bytes,
        process |-> exported.process]

\* The body of the POST /v1/export-step-pmi handler, after json::parse.
exportStepPmiRequest(session, handle, pmiPayload, schema, proc, writeFails) ==
  pmiResponse(handle, ShapeRegistry_get(session.registry, handle),
              exportStepWithPmi(
                ShapeRegistry_get(session.registry, handle).shape,
                session.current, session.registry, pmiPayload, schema,
                proc, writeFails),
              proc)

\* POST /v1/export-step-pmi.
ExportStepPmi ==
  /\ resp.seq < MaxRequests
  /\ \E sessionId \in UsableSessions, handle \in PresentedHandles :
       LET opened == SessionManager_get(sessions, sessionId)
           session == opened[sessionId]
           known == handle \in DOMAIN session.registry.shapes_
       IN \E pmiPayload \in (IF known THEN PmiPayloads ELSE {<<>>}) :
          \E writeFails \in (IF known THEN BOOLEAN ELSE {FALSE}) :
            LET served == exportStepPmiRequest(session, handle, pmiPayload,
                                               "AP242", process, writeFails)
            IN /\ sessions' = opened
               /\ resp' = Response(resp.seq + 1, "export-step-pmi", sessionId,
                                   handle, served.status, served.error,
                                   served.body)
               /\ process' = served.process
  /\ UNCHANGED <<issued, applied>>
  /\ UNCHANGED mergeVars
  /\ UNCHANGED selectVars
  /\ UNCHANGED threadVars
  /\ UNCHANGED annotateVars

\* A request whose body json::parse rejects: the handler throws before it
\* looks the session up.
MalformedRequest ==
  /\ resp.seq < MaxRequests
  /\ \E op \in {"exec-feature", "mesh", "export-step", "export-step-pmi"} :
       resp' = Response(resp.seq + 1, op, "", "", 400, "parse error", <<>>)
  /\ UNCHANGED <<sessions, issued, applied, process>>
  /\ UNCHANGED mergeVars
  /\ UNCHANGED selectVars
  /\ UNCHANGED threadVars
  /\ UNCHANGED annotateVars

Next ==
  \/ ExecFeature
  \/ Mesh
  \/ ExportStep
  \/ ExportStepPmi
  \/ MalformedRequest

Spec == Init /\ [][Next]_vars

-----------------------------------------------------------------------------
(* The arguments resolveGeometryRef is applied to.                          *)

\* The longest selections list of a model a geometry reference is resolved
\* against.
MaxRefElems == 2

\* Elements as collectSelections describes them, and elements whose handle
\* metadata is missing, empty, or unknown to the registry.
RefElements ==
  { [id |-> "solid", kind |-> "solid",
     meta |-> [handle |-> "shape:0", role |-> "body"]],
    [id |-> "face", kind |-> "face",
     meta |-> [handle |-> "shape:1", normal |-> "+Z"]],
    [id |-> "face", kind |-> "face", meta |-> [normal |-> "+Z"]],
    [id |-> "face", kind |-> "face",
     meta |-> [handle |-> "", normal |-> "+Z"]],
    [id |-> "face", kind |-> "face",
     meta |-> [handle |-> "shape:9", normal |-> "+Z"]],
    [id |-> "edge", kind |-> "edge",
     meta |-> [handle |-> "shape:2", role |-> "edge"]] }

RefOutputs ==
  [k \in {"body:main"} |->
     [id |-> "F1:body:main", kind |-> "solid",
      meta |-> [handle |-> "shape:0", role |-> "body"]]]

RefModels ==
  { [outputs |-> RefOutputs, selections |-> sels] :
      sels \in SeqsUpTo(RefElements, MaxRefElems) }

\* A registry that has registered a solid, a face and an edge, and a
\* registry that has registered nothing.
RefRegistries ==
  { [shapes_ |-> [h \in {"shape:0", "shape:1", "shape:2"} |->
                    CASE h = "shape:0" -> TopoShape("A", 0, "solid", 0)
                      [] h = "shape:1" -> TopoShape("A", 0, "face", 1)
                      [] h = "shape:2" -> TopoShape("A", 0, "edge", 1)],
     counter_ |-> 3],
    [shapes_ |-> <<>>, counter_ |-> 0] }

RefSelectors ==
  { UpFace,
    [kind |-> "selector.face"],
    [kind |-> "selector.edge"],
    [kind |-> "selector.solid"],
    NamedSelector("body:main"),
    NamedSelector("missing") }

\* Geometry references: every kind the code tests, a kind it does not know,
\* no kind, no selector, and a reference that is not an object.
GeometryRefs ==
  { [kind |-> k, selector |-> sel] :
      k \in {"ref.surface", "ref.edge", "ref.axis", "ref.point", "ref.frame",
             "ref.body"},
      sel \in RefSelectors }
  \cup { [selector |-> sel] : sel \in RefSelectors }
  \cup { [kind |-> k] : k \in {"ref.surface", "ref.axis"} }
  \cup { JNull }

InitRef ==
  /\ gIn \in GeometryRefs
  /\ gCurrent \in RefModels
  /\ gRegistry \in RefRegistries
  /\ gOut = <<>>
  /\ gPc = "args"
  /\ MergeIdle
  /\ SelectIdle
  /\ ServerIdle
  /\ ThreadsIdle

\* TopoDS_Shape targetShape = resolveGeometryRef(target, current, registry);
ResolveRef ==
  /\ gPc = "args"
  /\ gOut' = resolveGeometryRef(gIn, gCurrent, gRegistry)
  /\ gPc' = "done"
  /\ UNCHANGED <<gIn, gCurrent, gRegistry>>
  /\ UNCHANGED mergeVars
  /\ UNCHANGED selectVars
  /\ UNCHANGED serverVars
  /\ UNCHANGED threadVars

NextRef == ResolveRef

SpecRef == InitRef /\ [][NextRef]_vars

-----------------------------------------------------------------------------
(* Server threads.  httplib::Server hands every connection to a thread of   *)
(* its pool and the handlers take no lock: two export-step requests, one    *)
(* per session, interleave at every access to what the process shares, the  *)
(* write.step.schema setting and the file /tmp/trueform-native.step.  The   *)
(* session table holds both sessions from the start, so that                *)
(* SessionManager::get only reads it.                                       *)

\* The most export-step requests one thread serves.
MaxExports == 2

\* The session table once a first feature was built on each session.
BuiltSessions ==
  LET solid == CHOOSE x \in Solids : TRUE
      first == execFeature(<<>>, "A", <<>>, ExtrudeFeature("F1", "body:main"),
                           solid, -1, 400)
  IN execFeature(first.table, "B", <<>>, ExtrudeFeature("F1", "body:main"),
                 solid, -1, 400).table

\* The handles a client presents: two its session issued and one it did not.
ThreadHandles == {"shape:0", "shape:1", "shape:7"}

\* A thread of the pool between two requests.
IdleThread ==
  [pc |-> "idle", served |-> 0, handle |-> "", schema |-> "", shape |-> <<>>,
   status |-> 0, error |-> "", body |-> <<>>]

InitThreads ==
  /\ sessions = BuiltSessions
  /\ process = [schema |-> "AP214IS", stepFile |-> <<>>, pmiFile |-> <<>>]
  /\ threads = [s \in SessionIds |-> IdleThread]
  /\ issued = <<>> /\ applied = <<>> /\ resp = <<>>
  /\ MergeIdle
  /\ SelectIdle
  /\ AnnotateIdle

\* The export-step handler up to the call of exportStep: the payload is
\* parsed, the session found and the handle looked up in its registry.
LookupShape(s) ==
  /\ threads[s].pc = "idle"
  /\ threads[s].served < MaxExports
  /\ \E handle \in ThreadHandles, schema \in ExportSchemas :
       LET found == ShapeRegistry_get(SessionManager_get(sessions, s)[s].registry,
                                      handle)
       IN threads' = [threads EXCEPT ![s] =
            IF found.ok
            THEN [pc |-> "schema", served |-> @.served, handle |-> handle,
                  schema |-> schema, shape |-> found.shape,
                  status |-> 0, error |-> "", body |-> <<>>]
            ELSE [pc |-> "idle", served |-> @.served + 1, handle |-> handle,
                  schema |-> schema, shape |-> <<>>,
                  status |-> 400, error |-> found.error, body |-> <<>>]]
  /\ UNCHANGED <<sessions, issued, applied, resp, process>>
  /\ UNCHANGED mergeVars /\ UNCHANGED selectVars /\ UNCHANGED annotateVars

\* exportStep: writeStepSchema(schema) sets the process-wide setting.
SetStepSchema(s) ==
  /\ threads[s].pc = "schema"
  /\ process' = [process EXCEPT
                   !.schema = writeStepSchema(threads[s].schema, process.schema)]
  /\ threads' = [threads EXCEPT ![s].pc = "write"]
  /\ UNCHANGED <<sessions, issued, applied, resp>>
  /\ UNCHANGED mergeVars /\ UNCHANGED selectVars /\ UNCHANGED annotateVars

\* exportStep: the writer transfers the shape under the setting of that
\* moment and writes the scratch file, or does not end Done.
WriteStepFile(s) ==
  /\ threads[s].pc = "write"
  /\ \E writeFails \in BOOLEAN :
       IF writeFails
       THEN /\ threads' = [threads EXCEPT ![s] =
                 [@ EXCEPT !.pc = "idle", !.served = @ + 1, !.status = 400,
                           !.error = "Failed to write STEP"]]
            /\ UNCHANGED process
       ELSE /\ process' = [process EXCEPT !.stepFile =
                 [shape |-> threads[s].shape, schema |-> process.schema,
                  pmi |-> <<>>]]
            /\ threads' = [threads EXCEPT ![s].pc = "read"]
  /\ UNCHANGED <<sessions, issued, applied, resp>>
  /\ UNCHANGED mergeVars /\ UNCHANGED selectVars /\ UNCHANGED annotateVars

\* exportStep: readFileBytes(path), and the handler's res.set_content.
ReadStepFile(s) ==
  /\ threads[s].pc = "read"
  /\ threads' = [threads EXCEPT ![s] =
       [@ EXCEPT !.pc = "idle", !.served = @ + 1, !.status = 200,
                 !.body = process.stepFile]]
  /\ UNCHANGED <<sessions, issued, applied, resp, process>>
  /\ UNCHANGED mergeVars /\ UNCHANGED selectVars /\ UNCHANGED annotateVars

NextThreads ==
  \/ \E s \in SessionIds : LookupShape(s)
  \/ \E s \in SessionIds : SetStepSchema(s)
  \/ \E s \in SessionIds : WriteStepFile(s)
  \/ \E s \in SessionIds : ReadStepFile(s)

SpecThreads == InitThreads /\ [][NextThreads]_vars

-----------------------------------------------------------------------------
(* Two exec-feature requests on one session, each served by a thread of the *)
(* pool.  Neither ShapeRegistry nor Session has a lock: the threads         *)
(* interleave between the read and the write of counter_++, and between    *)
(* the member assignments of session.current = merged.                     *)

Workers == {1, 2}

\* The feature each thread builds, on session "A" with no upstream.
WorkerFeature(t) ==
  IF t = 1 THEN ExtrudeFeature("F1", "body:main")
  ELSE ExtrudeFeature("F2", "body:main")

\* The solid of a request, and the shapes collectSelections registers for
\* it in order: the solid, its faces, its edges.
WorkerSolid == CHOOSE x \in Solids : TRUE

WorkerShapes(t) ==
  [i \in 1..(1 + Len(WorkerSolid.faces) + Len(WorkerSolid.edges)) |->
     IF i = 1 THEN TopoShape("A", t, "solid", 0)
     ELSE IF i <= 1 + Len(WorkerSolid.faces) THEN TopoShape("A", t, "face", i - 1)
     ELSE TopoShape("A", t, "edge", i - 1 - Len(WorkerSolid.faces))]

\* KernelResult merged = mergeResults(upstream, built), for the handles the
\* thread was given.
WorkerMerged(t, handles) ==
  mergeResults(parseKernelResult(<<>>),
               builtResult(WorkerSolid, handles, WorkerFeature(t).id,
                           WorkerFeature(t).result, JArray(<<>>)))

InitRace ==
  /\ sessions = Put(<<>>, "A", NewSession)
  /\ threads = [t \in Workers |->
                  [pc |-> "request", loaded |-> 0, handles |-> <<>>]]
  /\ issued = <<>> /\ applied = <<>> /\ resp = <<>> /\ process = <<>>
  /\ MergeIdle
  /\ SelectIdle
  /\ AnnotateIdle

\* The handler up to collectSelections: the session is found, the solid is
\* built.
BuildSolid(t) ==
  /\ threads[t].pc = "request"
  /\ threads' = [threads EXCEPT ![t].pc = "load"]
  /\ sessions' = SessionManager_get(sessions, "A")
  /\ UNCHANGED <<issued, applied, resp, process>>
  /\ UNCHANGED mergeVars /\ UNCHANGED selectVars /\ UNCHANGED annotateVars

\* registerShape: counter_++ reads the counter.
LoadCounter(t) ==
  /\ threads[t].pc = "load"
  /\ threads' = [threads EXCEPT ![t].pc = "store",
                                ![t].loaded = sessions["A"].registry.counter_]
  /\ UNCHANGED <<sessions, issued, applied, resp, process>>
  /\ UNCHANGED mergeVars /\ UNCHANGED selectVars /\ UNCHANGED annotateVars

\* registerShape: counter_++ writes the counter back, and
\* shapes_[handle] = shape.
StoreShape(t) ==
  /\ threads[t].pc = "store"
  /\ LET handle == "shape:" \o ToString(threads[t].loaded)
         shape == WorkerShapes(t)[Len(threads[t].handles) + 1]
     IN /\ sessions' = [sessions EXCEPT !["A"].registry =
               [shapes_ |-> Put(@.shapes_, handle, shape),
                counter_ |-> threads[t].loaded + 1]]
        /\ threads' = [threads EXCEPT
               ![t].handles = Append(@, handle),
               ![t].pc = IF Len(threads[t].handles) + 1 < Len(WorkerShapes(t))
                         THEN "load" ELSE "outputs"]
  /\ UNCHANGED <<issued, applied, resp, process>>
  /\ UNCHANGED mergeVars /\ UNCHANGED selectVars /\ UNCHANGED annotateVars

\* session.current = merged: the member outputs is assigned.
AssignOutputs(t) ==
  /\ threads[t].pc = "outputs"
  /\ sessions' = [sessions EXCEPT !["A"].current.outputs =
                    WorkerMerged(t, threads[t].handles).outputs]
  /\ threads' = [threads EXCEPT ![t].pc = "selections"]
  /\ UNCHANGED <<issued, applied, resp, process>>
  /\ UNCHANGED mergeVars /\ UNCHANGED selectVars /\ UNCHANGED annotateVars

\* session.current = merged: the member selections is assigned; the
\* response is sent.
AssignSelections(t) ==
  /\ threads[t].pc = "selections"
  /\ sessions' = [sessions EXCEPT !["A"].current.selections =
                    WorkerMerged(t, threads[t].handles).selections]
  /\ threads' = [threads EXCEPT ![t].pc = "done"]
  /\ UNCHANGED <<issued, applied, resp, process>>
  /\ UNCHANGED mergeVars /\ UNCHANGED selectVars /\ UNCHANGED annotateVars

NextRace ==
  \/ \E t \in Workers : BuildSolid(t)
  \/ \E t \in Workers : LoadCounter(t)
  \/ \E t \in Workers : StoreShape(t)
  \/ \E t \in Workers : AssignOutputs(t)
  \/ \E t \in Workers : AssignSelections(t)

SpecRace == InitRace /\ [][NextRace]_vars

-----------------------------------------------------------------------------
(* exportStepWithPmi on its own: one call on the session of BuiltSessions,  *)
(* for the session's solid, with a pmi payload drawn from a pool.           *)

\* The most datums and the most constraints of a payload.
MaxDatums == 1
MaxConstraints == 2

\* Datums: a target that resolves or not, and modifier tags the code knows
\* (MMB) and does not know (RFS), or no modifiers member.
PmiDatums ==
  { [id |-> "A", target |-> SurfaceRef(sel)] :
      sel \in {UpFace, NamedSelector("missing")} }
  \cup { [id |-> "A", target |-> SurfaceRef(sel), modifiers |-> mods] :
           sel \in {UpFace, NamedSelector("missing")},
           mods \in {<<"MMB">>, <<"MMB", "RFS">>} }

\* Constraints: two kinds the code knows and one it does not, each with a
\* target that resolves, one that does not, and one that is no reference.
PmiConstraints ==
  { [kind |-> k, target |-> t, tolerance |-> JNumber("2"),
     modifiers |-> <<"MMC", "RFS">>, datum |-> << [datum |-> "A"] >>] :
      k \in {"constraint.flatness", "constraint.position",
             "constraint.roundness"},
      t \in {SurfaceRef(UpFace), SurfaceRef(NamedSelector("missing")), JNull} }

PmiInputs ==
  { [datums |-> d, constraints |-> c] :
      d \in SeqsUpTo(PmiDatums, MaxDatums),
      c \in SeqsUpTo(PmiConstraints, MaxConstraints) }

\* The process state the export starts in.
PmiProcess == [schema |-> "AP214IS", stepFile |-> <<>>, pmiFile |-> <<>>]

InitPmi ==
  /\ gIn \in PmiInputs
  /\ gCurrent = BuiltSessions["A"].current
  /\ gRegistry = BuiltSessions["A"].registry
  /\ gOut = <<>>
  /\ gPc = "args"
  /\ MergeIdle
  /\ SelectIdle
  /\ ServerIdle
  /\ ThreadsIdle

\* auto bytes = exportStepWithPmi(shape, session.current, session.registry,
\*                                pmiPayload, schema);
ExportWithPmi ==
  /\ gPc = "args"
  /\ \E writeFails \in BOOLEAN :
       gOut' = exportStepWithPmi(gRegistry.shapes_["shape:0"], gCurrent,
                                 gRegistry, gIn, "AP242", PmiProcess, writeFails)
  /\ gPc' = "done"
  /\ UNCHANGED <<gIn, gCurrent, gRegistry>>
  /\ UNCHANGED mergeVars
  /\ UNCHANGED selectVars
  /\ UNCHANGED serverVars
  /\ UNCHANGED threadVars

NextPmi == ExportWithPmi

SpecPmi == InitPmi /\ [][NextPmi]_vars

-----------------------------------------------------------------------------
(* exportStepWithPmi applied to payloads whose constraints refer to datums *)
(* by id.                                                                  *)

\* The longest datum list of such a payload.
MaxLinkDatums == 2

\* The longest list of datum references of a constraint.
MaxRefs == 2

\* Datums with the ids A and B, with the empty id and with no id, and a
\* datum A whose target does not resolve.
LinkDatums ==
  { [id |-> i, target |-> SurfaceRef(UpFace)] : i \in {"A", "B", ""} }
  \cup { [target |-> SurfaceRef(UpFace)],
         [id |-> "A", target |-> SurfaceRef(NamedSelector("missing"))] }

\* References to the datums A and B, to a datum Z that no payload defines,
\* to the empty id, and a reference without an id.
DatumRefs ==
  { [datum |-> i] : i \in {"A", "B", "Z", ""} } \cup { [role |-> "primary"] }

\* Constraints of a kind the code knows and of one it does not, with a list
\* of datum references or without the member.
LinkConstraints ==
  { [kind |-> k, target |-> SurfaceRef(UpFace), tolerance |-> JNumber("2"),
     datum |-> refs] :
      k \in {"constraint.flatness", "constraint.roundness"},
      refs \in SeqsUpTo(DatumRefs, MaxRefs) }
  \cup { [kind |-> "constraint.flatness", target |-> SurfaceRef(UpFace),
          tolerance |-> JNumber("2")] }

LinkInputs ==
  { [datums |-> d, constraints |-> <<c>>] :
      d \in SeqsUpTo(LinkDatums, MaxLinkDatums), c \in LinkConstraints }

InitLinks ==
  /\ gIn \in LinkInputs
  /\ gCurrent = BuiltSessions["A"].current
  /\ gRegistry = BuiltSessions["A"].registry
  /\ gOut = <<>>
  /\ gPc = "args"
  /\ MergeIdle
  /\ SelectIdle
  /\ ServerIdle
  /\ ThreadsIdle

SpecLinks == InitLinks /\ [][NextPmi]_vars

-----------------------------------------------------------------------------
(* The prism of a 10 x 10 rectangle by depth 5 along +Z, as the kernel      *)
(* hands it to collectSelections.  Centers are in tenths, like the          *)
(* vectors; areas are in square units.  TopExp_Explorer visits a sub-shape  *)
(* once for every shape that holds it: each of the 12 edges of the prism    *)
(* lies on two faces and is visited twice.  The bottom face is the profile  *)
(* face reversed: the code reads plane.Axis().Direction() and not the       *)
(* orientation of the face, so the axis it gets for the bottom face is that *)
(* of the profile's plane, +Z; a kernel that reported -Z is drawn as well.  *)

\* The faces of the prism: top, bottom, and the four sides.
PrismFaces(bottomDir) ==
  << [area |-> 100, center |-> <<0, 0, 50>>, plane |-> TRUE, dir |-> <<0, 0, 10>>],
     [area |-> 100, center |-> <<0, 0, 0>>, plane |-> TRUE, dir |-> bottomDir],
     [area |-> 50, center |-> <<0, -50, 25>>, plane |-> TRUE, dir |-> <<0, -10, 0>>],
     [area |-> 50, center |-> <<50, 0, 25>>, plane |-> TRUE, dir |-> <<10, 0, 0>>],
     [area |-> 50, center |-> <<0, 50, 25>>, plane |-> TRUE, dir |-> <<0, 10, 0>>],
     [area |-> 50, center |-> <<-50, 0, 25>>, plane |-> TRUE, dir |-> <<-10, 0, 0>>] >>

\* The centers of the four edges of a face parallel to the profile, at
\* height z, and of a side face through the point (x, y).
RingEdges(z) ==
  << [center |-> <<0, -50, z>>], [center |-> <<50, 0, z>>],
     [center |-> <<0, 50, z>>], [center |-> <<-50, 0, z>>] >>
SideEdges(x, y) ==
  << [center |-> <<x, y, 0>>], [center |-> <<x + y, y - x, 25>>],
     [center |-> <<x, y, 50>>], [center |-> <<x - y, y + x, 25>>] >>

\* for (; edgeExp.More(); edgeExp.Next()): the edges face by face.
PrismEdgeVisits ==
  RingEdges(50) \o RingEdges(0) \o SideEdges(0, -50) \o SideEdges(50, 0)
    \o SideEdges(0, 50) \o SideEdges(-50, 0)

Prisms ==
  { [center |-> <<0, 0, 25>>, faces |-> PrismFaces(bottomDir),
     edges |-> PrismEdgeVisits] : bottomDir \in {<<0, 0, 10>>, <<0, 0, -10>>} }

\* KernelResult built = collectSelections(solid, session.registry, ...) on a
\* new session.
PrismResult(solid) ==
  collectSelections(solid, "A", NewSession.registry, "F1", "body:main",
                    JArray(<<>>), -1).result

\* Selectors resolved against the partial result.
PrismSelectors ==
  { [kind |-> k, predicates |-> ps, rank |-> rs] :
      k \in {"selector.face", "selector.edge", "selector.solid"},
      ps \in { <<>>, <<[kind |-> "pred.planar"]>>,
               <<[kind |-> "pred.planar"], [kind |-> "pred.normal", value |-> "+Z"]>>,
               <<[kind |-> "pred.planar"], [kind |-> "pred.normal", value |-> "-Z"]>>,
               <<[kind |-> "pred.normal", value |-> "+X"]>> },
      rs \in { <<>>, <<[kind |-> "rank.maxArea"]>>, <<[kind |-> "rank.maxZ"]>>,
               <<[kind |-> "rank.maxArea"], [kind |-> "rank.maxZ"]>> } }

InitPrism ==
  /\ qModel \in {PrismResult(solid) : solid \in Prisms}
  /\ qSel \in PrismSelectors
  /\ qOut = <<>>
  /\ qPc = "args"
  /\ qStack = <<>>
  /\ MergeIdle
  /\ ServerIdle
  /\ ThreadsIdle
  /\ AnnotateIdle

SpecPrism == InitPrism /\ [][NextSelect]_vars

-----------------------------------------------------------------------------
(* Claims about the registry and the sessions, checked under Spec.          *)

\* The requests that look a presented handle up in the session's registry.
LookupOps == {"mesh", "export-step", "export-step-pmi"}

\* C1: once registerShape(o) has returned handle h on a session, every later
\* get(h) on that session's registry returns o, whatever requests were served
\* in between, successful or failed: the session is still there, the handle
\* is still mapped, and it is mapped to o.  A mesh request that succeeds was
\* given the object registered under the handle it presented.
C1_HandleKeepsObject ==
  /\ \A s \in SessionIds : \A i \in 1..Len(issued[s]) :
       /\ s \in DOMAIN sessions
       /\ ShapeRegistry_get(sessions[s].registry, issued[s][i].handle)
            = Shape(issued[s][i].shape)
  /\ (resp.op = "mesh" /\ resp.status = 200)
       => \E i \in 1..Len(issued[resp.session]) :
            issued[resp.session][i]
              = [handle |-> resp.handle, shape |-> resp.body.shape]

\* A session has registered the shapes of one feature and some of the shapes
\* of a feature that then failed, and a mesh of its first handle is served.
C1_Witness ==
  /\ resp.op = "mesh"
  /\ resp.status = 200
  /\ resp.handle = "shape:0"
  /\ Len(issued[resp.session]) > 4
  /\ Len(issued[resp.session]) % 4 # 0
  /\ resp.body.shape = issued[resp.session][1].shape

\* C2: within one registry no handle is issued twice: each handle
\* registerShape returns differs from every handle that registry returned
\* before, and the registry's counter has moved past all of them.
C2_FreshHandles ==
  \A s \in SessionIds :
    /\ \A i, j \in 1..Len(issued[s]) :
         i # j => issued[s][i].handle # issued[s][j].handle
    /\ issued[s] # <<>> =>
         /\ sessions[s].registry.counter_ = Len(issued[s])
         /\ DOMAIN sessions[s].registry.shapes_
              = {issued[s][i].handle : i \in 1..Len(issued[s])}

\* A registry has issued the handles of a whole feature, of a feature that
\* failed in the middle of its registrations, and of another whole feature.
C2_Witness ==
  \E s \in SessionIds :
    /\ Len(issued[s]) > 8
    /\ Len(issued[s]) % 4 # 0

\* C3, as the spec states it: when a handle that another session's registry
\* issued is presented to a session, the request is rejected with "Unknown
\* shape handle".
C3_CrossSessionRejected ==
  \A a \in SessionIds :
    ( /\ resp.op \in LookupOps
      /\ resp.session \in SessionIds \ {a}
      /\ \E i \in 1..Len(issued[a]) : issued[a][i].handle = resp.handle )
    => resp.error = "Unknown shape handle: " \o resp.handle

\* C7, as the spec states it: a request that fails leaves the session table
\* (the sessions that exist, the registry and counter and the current model
\* of each) as it was, and its response carries an error message.
C7_AtomicOrNothing ==
  [][resp'.status # 200 => (sessions' = sessions /\ resp'.error # "")]_vars

\* The selector of the scenario: the solid that feature F1 created.
SolidCreatedByF1 ==
  [kind |-> "selector.solid",
   predicates |-> << [kind |-> "pred.createdBy", featureId |-> "F1"] >>]

\* C14, as the spec states it: once exec-feature has built F1 and then F2 on a
\* session, the selector {solid, createdBy = F1} resolves against the
\* session's current model to the solid F1 created.
C14_SolidOfFirstFeature ==
  \A s \in SessionIds :
    ( /\ Len(applied[s]) = 2
      /\ applied[s][1].id = "F1"
      /\ applied[s][2].id = "F2" )
    => LET found == resolveSelector(SolidCreatedByF1, sessions[s].current)
       IN /\ found.ok
          /\ found.sel.kind = "solid"
          /\ found.sel.meta["handle"] = applied[s][1].handle

\* The handles registerShape returned while the request of this step was
\* served on the session.
IssuedInStep(s) ==
  {issued'[s][j].handle : j \in (Len(issued[s]) + 1)..Len(issued'[s])}

\* C22: a successful exec-feature leaves the session's current model equal
\* to mergeResults(upstream of the request, partial result of the feature),
\* whatever the current model was before; the response holds the partial
\* result only, one selection per shape registered for the request; and no
\* other step replaces the current model of a session.
C22_CurrentIsMergeOntoUpstream ==
  [][ IF resp'.op = "exec-feature" /\ resp'.status = 200
      THEN LET s == resp'.session
               request == applied'[s][Len(applied'[s])]
               partial == resp'.body.result
           IN /\ sessions'[s].current =
                   mergeResults(parseKernelResult(request.upstream),
                                parseKernelResult(partial))
              /\ Len(partial.selections) = Cardinality(IssuedInStep(s))
              /\ \A i \in 1..Len(partial.selections) :
                   /\ partial.selections[i].meta["handle"] \in IssuedInStep(s)
                   /\ partial.selections[i].meta["createdBy"] = request.id
              /\ \A t \in DOMAIN sessions \ {s} :
                   sessions'[t].current = sessions[t].current
      ELSE \A t \in DOMAIN sessions :
             sessions'[t].current = sessions[t].current ]_vars

\* A second feature was built on a session with no upstream document: the
\* current model is the partial result alone, the first feature is gone.
C22_Witness ==
  /\ resp.op = "exec-feature"
  /\ resp.status = 200
  /\ resp.session \in SessionIds
  /\ Len(applied[resp.session]) = 2
  /\ applied[resp.session][2].upstream = <<>>
  /\ sessions[resp.session].current = parseKernelResult(resp.body.result)
  /\ \A i \in 1..Len(sessions[resp.session].current.selections) :
       sessions[resp.session].current.selections[i].meta["createdBy"]
         = applied[resp.session][2].id

-----------------------------------------------------------------------------
(* Claims about mergeResults, checked under SpecMerge.                     *)

\* The entries of the merged selections that precede next's block: the
\* entries taken from upstream.
MergedKept ==
  SubSeq(mOut.selections, 1, Len(mOut.selections) - Len(mNext.selections))

\* Some element of next.selections carries the same ownerKey value as u.
CarriedByNext(u) ==
  /\ contains(u.meta, "ownerKey")
  /\ \E j \in 1..Len(mNext.selections) :
       /\ contains(mNext.selections[j].meta, "ownerKey")
       /\ mNext.selections[j].meta["ownerKey"] = u.meta["ownerKey"]

\* The same, for an ownerKey that is a JSON string on both sides.
CarriedByNextAsString(u) ==
  /\ CarriedByNext(u)
  /\ u.meta["ownerKey"].t = "string"

NextAllMerged ==
  \A j \in 1..Len(mNext.selections) :
    \E i \in 1..Len(mOut.selections) :
      mOut.selections[i] = mNext.selections[j]

C5_MergeOutputPrecedence ==
  mPc = "done" =>
    /\ DOMAIN mOut.outputs = DOMAIN mUp.outputs \cup DOMAIN mNext.outputs
    /\ \A k \in DOMAIN mNext.outputs : mOut.outputs[k] = mNext.outputs[k]
    /\ \A k \in DOMAIN mUp.outputs \ DOMAIN mNext.outputs :
         mOut.outputs[k] = mUp.outputs[k]

\* C5 witness: next overwrote a key of upstream with another value while
\* another key came from upstream alone.
C5_Witness ==
  /\ mPc = "done"
  /\ \E k \in DOMAIN mUp.outputs \cap DOMAIN mNext.outputs :
       mUp.outputs[k] # mNext.outputs[k]
  /\ DOMAIN mUp.outputs \ DOMAIN mNext.outputs # {}

-----------------------------------------------------------------------------
(* Claims about resolveSelector, checked under SpecSelect.                 *)

QKind == value(qSel, "kind", "")
QPredicates == value(qSel, "predicates", <<>>)
QRank == value(qSel, "rank", <<>>)
QCandidates == filterCandidates(qSel, qModel)
QRanked == rankCandidates(qSel, QCandidates, qModel)

AmbiguousSelection == "Selector ambiguity after ranking"
NoMatch == "Selector matched 0 candidates"
MissingNamedOutput(name) == "Missing named output: " \o name

\* C8: a selector that is not a named one returns an element only if exactly
\* one candidate is left after the ranking pipeline, and that element; with
\* more than one left it fails with AmbiguousSelection, also when there is no
\* ranking stage and two or more elements pass the filter.
C8_SelectorOutcome ==
  (qPc = "done" /\ QKind # "selector.named") =>
    /\ qOut.ok =>
         /\ ~QRanked.failed
         /\ Len(QRanked.candidates) = 1
         /\ qOut.sel = QRanked.candidates[1]
    /\ (~QRanked.failed /\ Len(QRanked.candidates) > 1) =>
         (~qOut.ok /\ qOut.error = AmbiguousSelection)
    /\ (QRank = <<>> /\ Len(QCandidates) >= 2) =>
         (~qOut.ok /\ qOut.error = AmbiguousSelection)

\* C8 witness: a filter that matched two faces of equal area, no ranking
\* stage, and the resolution failed as ambiguous.
C8_Witness ==
  /\ qPc = "done"
  /\ QKind = "selector.face"
  /\ QRank = <<>>
  /\ Len(QCandidates) = 2
  /\ QCandidates[1] # QCandidates[2]
  /\ QCandidates[1].meta["area"] = QCandidates[2].meta["area"]
  /\ qOut = Failed(AmbiguousSelection)

\* The element kind a selector kind asks for.
RequestedKind ==
  CASE QKind = "selector.face" -> "face"
    [] QKind = "selector.edge" -> "edge"
    [] QKind = "selector.solid" -> "solid"
    [] OTHER -> ""

\* One of the four listed predicates holds of an element; a metadata member
\* or a requested value that is absent counts as empty (as false for planar).
PassesPredicate(pred, el) ==
  LET predKind == value(pred, "kind", "")
      requested(key) == IF key \in DOMAIN pred THEN pred[key] ELSE ""
      carried(key) == IF key \in DOMAIN el.meta THEN el.meta[key] ELSE ""
  IN /\ predKind = "pred.planar" =>
          ("planar" \in DOMAIN el.meta /\ el.meta["planar"] = TRUE)
     /\ predKind = "pred.normal" => carried("normal") = requested("value")
     /\ predKind = "pred.createdBy" =>
          carried("createdBy") = requested("featureId")
     /\ predKind = "pred.role" => carried("role") = requested("value")

ExpectedCandidates ==
  SelectSeq(qModel.selections,
            LAMBDA el :
              /\ el.kind = RequestedKind
              /\ \A i \in 1..Len(QPredicates) :
                   PassesPredicate(QPredicates[i], el))

C10_NamedLookup ==
  (qPc = "done" /\ QKind = "selector.named") =>
    LET name == IF "name" \in DOMAIN qSel THEN qSel["name"] ELSE ""
    IN IF name \in DOMAIN qModel.outputs
       THEN /\ qOut.ok
            /\ qOut.sel.id = qModel.outputs[name].id
            /\ qOut.sel.kind = qModel.outputs[name].kind
            /\ qOut.sel.meta = qModel.outputs[name].meta
       ELSE qOut = Failed(MissingNamedOutput(name))

\* C10 witness: a named selector that also lists a predicate and a rank stage
\* found its output in a model with selections.
C10_Witness ==
  /\ qPc = "done"
  /\ QKind = "selector.named"
  /\ QPredicates # <<>>
  /\ QRank # <<>>
  /\ qModel.selections # <<>>
  /\ qOut.ok
  /\ qOut.sel.id = "F1:body:main"

\* The rank loop after the first i rules of the selector: the candidates
\* left, or the error a stage returned.
RankPrefix(i) == rankLoop(SubSeq(QRank, 1, i), 1, QCandidates, qModel)

Elements(seq) == {seq[i] : i \in 1..Len(seq)}

\* C11, as the spec states it: every ranking stage that does not fail leaves
\* a subset of the candidates it was given, and leaves at least one.
C11_RankNarrowing ==
  (qPc = "done" /\ QKind # "selector.named" /\ QCandidates # <<>>) =>
    \A i \in 1..Len(QRank) :
      (~RankPrefix(i - 1).failed /\ ~RankPrefix(i).failed) =>
        /\ Elements(RankPrefix(i).candidates)
             \subseteq Elements(RankPrefix(i - 1).candidates)
        /\ Len(RankPrefix(i).candidates) <= Len(RankPrefix(i - 1).candidates)
        /\ RankPrefix(i).candidates # <<>>

\* Rule i of the selector is a closestTo stage whose target does not resolve.
TargetFails(i) ==
  /\ value(QRank[i], "kind", "") = "rank.closestTo"
  /\ ~resolveSelector(QRank[i]["target"], qModel).ok

\* C12, as first stated: whenever the pipeline contains a closestTo stage
\* whose target fails to resolve, the resolution fails with the target's
\* failure.
C12_TargetFailurePropagates_Always ==
  (qPc = "done" /\ QKind # "selector.named") =>
    \A i \in 1..Len(QRank) :
      TargetFails(i) =>
        qOut = Failed(resolveSelector(QRank[i]["target"], qModel).error)

\* C12: when the rank loop reaches a closestTo stage (more than one candidate
\* is left and no earlier stage failed) whose target fails to resolve, the
\* resolution fails with exactly the target's failure.
C12_TargetFailurePropagates ==
  (qPc = "done" /\ QKind # "selector.named" /\ QCandidates # <<>>) =>
    \A i \in 1..Len(QRank) :
      ( /\ TargetFails(i)
        /\ ~RankPrefix(i - 1).failed
        /\ Len(RankPrefix(i - 1).candidates) > 1 )
      => qOut = Failed(resolveSelector(QRank[i]["target"], qModel).error)

\* A maxArea stage left two faces, the closestTo stage after it names an
\* output that is missing, and the resolution failed with MissingNamedOutput.
C12_Witness ==
  /\ qPc = "done"
  /\ Len(QRank) = 2
  /\ QRank[1] = [kind |-> "rank.maxArea"]
  /\ TargetFails(2)
  /\ Len(RankPrefix(1).candidates) = 2
  /\ qOut = Failed(MissingNamedOutput("missing"))

C24_IndeterminateNeverMatches ==
  (qPc # "args" /\ qOut.ok /\ QKind # "selector.named") =>
    \A i \in 1..Len(QPredicates) :
      value(QPredicates[i], "kind", "") = "pred.normal" =>
        /\ "normal" \in DOMAIN qOut.sel.meta
        /\ qOut.sel.meta["normal"] = value(QPredicates[i], "value", "")

\* The center a closestTo stage reads from an element's metadata: the center
\* member, or the array (0, 0, 0) when there is none.
CenterOf(meta) == value(meta, "center", JArray(<<0, 0, 0>>))

\* The square of the Euclidean distance between two points.
SqDistance(a, b) ==
  (a[1] - b[1]) * (a[1] - b[1]) + (a[2] - b[2]) * (a[2] - b[2])
    + (a[3] - b[3]) * (a[3] - b[3])

\* The candidates of a list that are at least as near to the point as every
\* candidate of the list, in the order of the list.
Nearest(cands, point) ==
  SelectSeq(cands,
            LAMBDA c : \A j \in 1..Len(cands) :
                         SqDistance(CenterOf(c.meta).v, point)
                           <= SqDistance(CenterOf(cands[j].meta).v, point))

\* The element the target selector of rule i resolves to, and its center.
TargetOf(i) == resolveSelector(QRank[i]["target"], qModel)
TargetCenter(i) == CenterOf(TargetOf(i).sel.meta)

\* Rule i is a closestTo stage that runs with two or more candidates and
\* whose target resolves.
ClosestRuns(i) ==
  /\ value(QRank[i], "kind", "") = "rank.closestTo"
  /\ ~RankPrefix(i - 1).failed
  /\ Len(RankPrefix(i - 1).candidates) >= 2
  /\ TargetOf(i).ok

\* C25, as first stated: a closestTo stage that runs with two or more
\* candidates and whose target resolves keeps exactly the candidates at the
\* least Euclidean distance from the target's center and drops the others.
C25_ClosestKeepsNearest_AnyCenter ==
  (qPc = "done" /\ QKind # "selector.named" /\ QCandidates # <<>>) =>
    \A i \in 1..Len(QRank) :
      ClosestRuns(i) =>
        /\ ~RankPrefix(i).failed
        /\ RankPrefix(i).candidates
             = Nearest(RankPrefix(i - 1).candidates, TargetCenter(i).v)

\* C25: a closestTo stage that runs with two or more candidates, whose target
\* resolves to an element whose center is absent (then the origin) or an
\* array of at least three entries, keeps exactly the candidates at the
\* least Euclidean distance from that center, ties included, in their order,
\* and drops the others.
C25_ClosestKeepsNearest ==
  (qPc = "done" /\ QKind # "selector.named" /\ QCandidates # <<>>) =>
    \A i \in 1..Len(QRank) :
      (ClosestRuns(i) /\ is_array(TargetCenter(i)) /\ size(TargetCenter(i)) >= 3) =>
        /\ ~RankPrefix(i).failed
        /\ RankPrefix(i).candidates
             = Nearest(RankPrefix(i - 1).candidates, TargetCenter(i).v)

\* A closestTo stage was given two candidates at different distances from
\* the center of its target and kept the nearer one, which the selector
\* resolved to.
C25_Witness ==
  /\ qPc = "done"
  /\ QKind # "selector.named"
  /\ QCandidates # <<>>
  /\ Len(QRank) = 1
  /\ ClosestRuns(1)
  /\ is_array(TargetCenter(1))
  /\ size(TargetCenter(1)) >= 3
  /\ Len(RankPrefix(1).candidates) = 1
  /\ qOut = Found(RankPrefix(1).candidates[1])

RequiresCenter == "Selector requires center metadata"

\* C26: a closestTo stage that runs with two or more candidates and whose
\* target resolves to an element without center metadata does not fail: it
\* keeps the candidates nearest to the origin (0, 0, 0).  A stage whose
\* target resolves fails only when the target's center is present and is
\* not an array of at least three entries, and then with the "requires
\* center metadata" failure.
C26_MissingCenterIsOrigin ==
  (qPc = "done" /\ QKind # "selector.named" /\ QCandidates # <<>>) =>
    \A i \in 1..Len(QRank) :
      ClosestRuns(i) =>
        /\ ~contains(TargetOf(i).sel.meta, "center") =>
             /\ ~RankPrefix(i).failed
             /\ RankPrefix(i).candidates
                  = Nearest(RankPrefix(i - 1).candidates, <<0, 0, 0>>)
        /\ RankPrefix(i).failed =>
             /\ RankPrefix(i).error = RequiresCenter
             /\ qOut = Failed(RequiresCenter)
             /\ contains(TargetOf(i).sel.meta, "center")
             /\ \/ ~is_array(TargetOf(i).sel.meta["center"])
                \/ size(TargetOf(i).sel.meta["center"]) < 3

\* The target of a closestTo stage is a named output that holds a handle and
\* a role and no center; of two candidates the stage kept the one nearer to
\* the origin, which the selector resolved to.
C26_Witness ==
  /\ qPc = "done"
  /\ QKind # "selector.named"
  /\ QCandidates # <<>>
  /\ Len(QRank) = 1
  /\ ClosestRuns(1)
  /\ DOMAIN TargetOf(1).sel.meta = {"handle", "role"}
  /\ Len(RankPrefix(1).candidates) = 1
  /\ qOut = Found(RankPrefix(1).candidates[1])

\* C27: the ranking stages run left to right only while more than one
\* candidate is left.  Once the filter or the stages run so far have left a
\* single candidate, every later stage is skipped and the selector resolves
\* to that candidate, also when a later closestTo stage has a target that
\* does not resolve.
C27_SingleCandidateEndsRanking ==
  (qPc = "done" /\ QKind # "selector.named" /\ QCandidates # <<>>) =>
    \A i \in 0..Len(QRank) :
      (~RankPrefix(i).failed /\ Len(RankPrefix(i).candidates) = 1) =>
        /\ qOut = Found(RankPrefix(i).candidates[1])
        /\ \A j \in i..Len(QRank) : RankPrefix(j) = RankPrefix(i)

\* The first stage narrowed two candidates to one, the closestTo stage after
\* it names an output that is missing, and the selector resolved to the
\* candidate that was left.
C27_Witness ==
  /\ qPc = "done"
  /\ QKind # "selector.named"
  /\ Len(QCandidates) = 2
  /\ Len(QRank) = 2
  /\ Len(RankPrefix(1).candidates) = 1
  /\ TargetFails(2)
  /\ qOut = Found(RankPrefix(1).candidates[1])

\* The predicates and the rank rules of the selector whose kind the code
\* knows.
KnownPredicates ==
  SelectSeq(QPredicates,
            LAMBDA pred : value(pred, "kind", "")
                            \in {"pred.planar", "pred.normal", "pred.createdBy",
                                 "pred.role"})
KnownRank ==
  SelectSeq(QRank,
            LAMBDA rule : value(rule, "kind", "")
                            \in {"rank.maxArea", "rank.minZ", "rank.maxZ",
                                 "rank.closestTo"})

\* C30: a selector whose kind is not named, face, edge or solid, a missing
\* or empty kind included, has the elements of every kind as candidates,
\* those that pass its predicates; a predicate of a kind the code does not
\* know passes every element and a rank rule of such a kind leaves the
\* candidates as they are, so the selector resolves as it does without
\* them, and neither is an error.
C30_UnknownKindsIgnored ==
  (qPc = "done" /\ QKind # "selector.named") =>
    /\ QKind \notin {"selector.face", "selector.edge", "selector.solid"} =>
         QCandidates
           = SelectSeq(qModel.selections,
                       LAMBDA sel : \A i \in 1..Len(KnownPredicates) :
                                      predicateMatches(KnownPredicates[i], sel))
    /\ QCandidates
         = filterCandidates([kind |-> QKind, predicates |-> KnownPredicates],
                            qModel)
    /\ qOut = resolveSelector([kind |-> QKind, predicates |-> KnownPredicates,
                               rank |-> KnownRank], qModel)

\* A selector without a kind, whose first rank rule is of a kind the code
\* does not know, had a face and a solid as candidates, and resolved to the
\* one its second rule prefers.
C30_Witness ==
  /\ qPc = "done"
  /\ ~contains(qSel, "kind")
  /\ Len(QRank) = 2
  /\ value(QRank[1], "kind", "") = "rank.shuffle"
  /\ Len(QCandidates) = 2
  /\ QCandidates[1].kind # QCandidates[2].kind
  /\ qOut.ok

-----------------------------------------------------------------------------
(* Claims about the calls of resolveSelector, checked under SpecCalls.      *)

-----------------------------------------------------------------------------
(* Claims about resolveGeometryRef, checked under SpecRef.                  *)

GKind == IF is_object(gIn) THEN value(gIn, "kind", "") ELSE ""

\* The element the reference's selector resolves to, or its failure.
GSelection ==
  resolveSelector(IF is_object(gIn) THEN value(gIn, "selector", <<>>) ELSE <<>>,
                  gCurrent)

UnsupportedKinds == {"ref.axis", "ref.point", "ref.frame"}

TypeMismatch(kind) ==
  IF kind = "ref.surface" THEN "Expected face selection for ref.surface"
  ELSE "Expected edge selection for ref.edge"
Unsupported(kind) == "Geometry ref kind not supported yet: " \o kind
MissingHandle == "Selection missing handle metadata"

\* The element kind a reference kind expects.
ExpectedKind == IF GKind = "ref.surface" THEN "face" ELSE "edge"

\* C15: a reference of kind surface (edge) resolves only if the element its
\* selector resolves to is a face (an edge); when the selector resolves to
\* an element of another kind the call fails with TypeMismatch and returns
\* nothing from the registry, also when the registry maps the element's
\* handle.
C15_KindCheck ==
  (gPc = "done" /\ GKind \in {"ref.surface", "ref.edge"}) =>
    /\ gOut.ok => (GSelection.ok /\ GSelection.sel.kind = ExpectedKind)
    /\ (GSelection.ok /\ GSelection.sel.kind # ExpectedKind) =>
         gOut = Thrown(TypeMismatch(GKind))

\* A surface reference whose selector resolved to a solid that the registry
\* knows failed with TypeMismatch.
C15_Witness ==
  /\ gPc = "done"
  /\ GKind = "ref.surface"
  /\ GSelection.ok
  /\ GSelection.sel.kind = "solid"
  /\ GSelection.sel.meta["handle"] \in DOMAIN gRegistry.shapes_
  /\ gOut = Thrown(TypeMismatch("ref.surface"))

\* C16, as the spec states it: a reference of kind axis, point or frame
\* fails with Unsupported(kind), whatever its selector is.
C16_UnsupportedKinds ==
  (gPc = "done" /\ GKind \in UnsupportedKinds) =>
    gOut = Thrown(Unsupported(GKind))

\* The reference passes the kind check.
PassesKindCheck ==
  /\ GKind \notin UnsupportedKinds
  /\ GKind \in {"ref.surface", "ref.edge"} => GSelection.sel.kind = ExpectedKind

\* C17, as first stated: with the selector resolved and the kind check
\* passed, the call fails with MissingHandle when the element has no handle
\* member, and else returns what the registry's get returns for the handle.
C17_HandleLookup_AbsentOnly ==
  (gPc = "done" /\ is_object(gIn) /\ GSelection.ok /\ PassesKindCheck) =>
    IF "handle" \notin DOMAIN GSelection.sel.meta
    THEN gOut = Thrown(MissingHandle)
    ELSE gOut = ShapeRegistry_get(gRegistry, GSelection.sel.meta["handle"])

\* C17: with the selector resolved and the kind check passed, the call fails
\* with MissingHandle when the element has no handle member or an empty one;
\* else it returns exactly the object the registry maps the handle to, or
\* fails with UnknownHandle when the registry does not map it.
C17_HandleLookup ==
  (gPc = "done" /\ is_object(gIn) /\ GSelection.ok /\ PassesKindCheck) =>
    LET meta == GSelection.sel.meta
    IN IF "handle" \notin DOMAIN meta \/ meta["handle"] = ""
       THEN gOut = Thrown(MissingHandle)
       ELSE IF meta["handle"] \in DOMAIN gRegistry.shapes_
       THEN gOut = Shape(gRegistry.shapes_[meta["handle"]])
       ELSE gOut = Thrown("Unknown shape handle: " \o meta["handle"])

\* A surface reference resolved to the face the registry holds under the
\* element's handle.
C17_Witness ==
  /\ gPc = "done"
  /\ GKind = "ref.surface"
  /\ GSelection.ok
  /\ GSelection.sel.meta = [handle |-> "shape:1", normal |-> "+Z"]
  /\ gOut = Shape(TopoShape("A", 0, "face", 1))

-----------------------------------------------------------------------------
(* Claims about concurrent requests, checked under SpecThreads.            *)

\* C18, as the spec states it: requests served concurrently on different
\* sessions are independent.  A successful export-step answers with the
\* file written for the shape its own session's registry holds under the
\* handle presented, under the schema the request named.
C18_SessionsIndependent ==
  \A s \in SessionIds :
    (threads[s].pc = "idle" /\ threads[s].status = 200) =>
      /\ threads[s].body.shape = sessions[s].registry.shapes_[threads[s].handle]
      /\ threads[s].schema # "" =>
           threads[s].body.schema = writeStepSchema(threads[s].schema, "")

-----------------------------------------------------------------------------
(* Claims about concurrent requests on one session, checked under SpecRace. *)

\* C23, as the spec states it: with two exec-feature requests on one session
\* in flight at once, once both are served no handle was issued twice, every
\* handle issued maps to the shape it was issued for, and the session's
\* current model is the whole merge result of one of the two requests.
C23_SameSessionSerialized ==
  (\A t \in Workers : threads[t].pc = "done") =>
    /\ \A i \in 1..Len(threads[1].handles), j \in 1..Len(threads[2].handles) :
         threads[1].handles[i] # threads[2].handles[j]
    /\ \A t \in Workers : \A i \in 1..Len(threads[t].handles) :
         ShapeRegistry_get(sessions["A"].registry, threads[t].handles[i])
           = Shape(WorkerShapes(t)[i])
    /\ \E t \in Workers :
         sessions["A"].current = WorkerMerged(t, threads[t].handles)

-----------------------------------------------------------------------------
(* Claims about the annotation document, checked under SpecPmi.            *)

\* The modifier tags of datums that mapDatumModifier has a case for.
RecognizedDatumModifiers == {"MMB", "LMB"}

\* Some datum of the payload carries a tag outside the enumeration.
HasUnrecognizedDatumModifier ==
  \E i \in 1..Len(gIn.datums) :
    \E m \in 1..Len(value(gIn.datums[i], "modifiers", <<>>)) :
      gIn.datums[i].modifiers[m] \notin RecognizedDatumModifiers

\* C19, as the spec states it: a datum with a modifier tag outside the
\* recognized enumeration makes the export with annotations fail.
C19_UnrecognizedDatumModifierFails ==
  (gPc = "done" /\ HasUnrecognizedDatumModifier) => ~gOut.ok

\* The constraints of the payload whose kind mapToleranceType knows.
KnownConstraints ==
  SelectSeq(gIn.constraints,
            LAMBDA c : mapToleranceType(value(c, "kind", "")) # "None")

\* C20: constraints of an unrecognized kind are skipped without error.  The
\* export ends as some export of the payload without them ends: same
\* records, same links, same exception if any, so that neither they nor
\* their targets have any effect; and a successful export holds one
\* tolerance record per constraint of a recognized kind, in order.
C20_UnknownKindSkipped ==
  (gPc = "done" /\ Len(KnownConstraints) < Len(gIn.constraints)) =>
    /\ \E writeFails \in BOOLEAN :
         gOut = exportStepWithPmi(gRegistry.shapes_["shape:0"], gCurrent,
                                  gRegistry,
                                  [gIn EXCEPT !.constraints = KnownConstraints],
                                  "AP242", PmiProcess, writeFails)
    /\ gOut.ok =>
         /\ Len(gOut.bytes.pmi.tolerances) = Len(KnownConstraints)
         /\ \A i \in 1..Len(KnownConstraints) :
              gOut.bytes.pmi.tolerances[i].type
                = mapToleranceType(KnownConstraints[i].kind)

\* An export succeeded whose first constraint has an unrecognized kind and
\* a target that is no reference, and whose second is a flatness
\* constraint: the document holds the flatness record alone.
C20_Witness ==
  /\ gPc = "done"
  /\ Len(gIn.constraints) = 2
  /\ gIn.constraints[1].kind = "constraint.roundness"
  /\ gIn.constraints[1].target = JNull
  /\ gIn.constraints[2].kind = "constraint.flatness"
  /\ gOut.ok
  /\ Len(gOut.bytes.pmi.tolerances) = 1
  /\ gOut.bytes.pmi.tolerances[1].type = "Flatness"

-----------------------------------------------------------------------------
(* Claims about the datum links, checked under SpecLinks.                   *)

\* A datum of the payload defines the id: the id is not empty and is the id
\* of some datum of the list.
DatumDefined(id) ==
  /\ id # ""
  /\ \E d \in 1..Len(gIn.datums) : value(gIn.datums[d], "id", "") = id

\* The record of the last datum of the list that has the id.
DatumRecord(id) ==
  CHOOSE d \in 1..Len(gIn.datums) :
    /\ value(gIn.datums[d], "id", "") = id
    /\ \A e \in (d + 1)..Len(gIn.datums) : value(gIn.datums[e], "id", "") # id

\* The links the spec gives a constraint: one for each of its references,
\* in order, whose id a datum of the payload defines.
ExpectedLinks(constraint) ==
  LET refs == SelectSeq(value(constraint, "datum", <<>>),
                        LAMBDA ref : DatumDefined(value(ref, "datum", "")))
  IN [r \in 1..Len(refs) |-> DatumRecord(refs[r].datum)]

\* C29: in an export that succeeds, every constraint of a recognized kind
\* has a link to a datum for each of its references whose id a datum of the
\* same payload defines, wherever in the datum list, and for no other
\* reference: a reference to an unknown id, to the empty id or without an
\* id is skipped, without error and without effect on the other links.
C29_DatumLinks ==
  (gPc = "done" /\ gOut.ok) =>
    /\ Len(gOut.bytes.pmi.datums) = Len(gIn.datums)
    /\ Len(gOut.bytes.pmi.tolerances) = Len(KnownConstraints)
    /\ \A i \in 1..Len(KnownConstraints) :
         gOut.bytes.pmi.tolerances[i].datums = ExpectedLinks(KnownConstraints[i])

\* An export succeeded whose constraint refers to a datum Z the payload
\* does not define and then to the datum B, the second of the datum list:
\* the tolerance is linked to the second datum record alone.
C29_Witness ==
  /\ gPc = "done"
  /\ gOut.ok
  /\ Len(gIn.datums) = 2
  /\ gIn.datums[2] = [id |-> "B", target |-> SurfaceRef(UpFace)]
  /\ gIn.constraints[1].kind = "constraint.flatness"
  /\ value(gIn.constraints[1], "datum", <<>>) = << [datum |-> "Z"], [datum |-> "B"] >>
  /\ gOut.bytes.pmi.tolerances[1].datums = <<2>>

-----------------------------------------------------------------------------
(* Claims about the extruded rectangle, checked under SpecPrism.           *)

\* How many selections of the model are of the kind.
CountKind(kind) ==
  Len(SelectSeq(qModel.selections, LAMBDA sel : sel.kind = kind))

\* {kind: face, predicates: planar and normal = +Z, rank: maxArea}.
TopFaceSelector ==
  [kind |-> "selector.face",
   predicates |-> <<[kind |-> "pred.planar"],
                    [kind |-> "pred.normal", value |-> "+Z"]>>,
   rank |-> <<[kind |-> "rank.maxArea"]>>]

\* C21, as the spec states it: the partial result of the extrusion has
\* exactly 1 solid, 6 face and 12 edge selections, and the selector of the
\* top face resolves to the face of area 100 whose center is at height 5.
C21_ExtrudedRectangle ==
  /\ CountKind("solid") = 1
  /\ CountKind("face") = 6
  /\ CountKind("edge") = 12
  /\ (qPc = "done" /\ qSel = TopFaceSelector) =>
       /\ qOut.ok
       /\ qOut.sel.meta["area"] = 100
       /\ qOut.sel.meta["centerZ"] = 50

=============================================================================
